---------------------------- MODULE Spec2Model ----------------------------
(***************************************************************************)
(* A model of the content pipeline of sabrina-pause: the property          *)
(* extractors and content transformers (src/lib/transformers.ts), the      *)
(* Notion loader's pagination (src/lib/notion-loader.ts), the image cache  *)
(* (lib/image-cache.ts) and the backup writer (lib/backup-system.ts).      *)
(*                                                                         *)
(* JavaScript values are tagged records, so that a property bag of any     *)
(* shape can be handed to an extractor; a string is a sequence of          *)
(* one-character strings; a raised TypeError is the value Throw.           *)
(***************************************************************************)
EXTENDS Integers, Sequences, FiniteSets, TLC

VARIABLES
    xPage,      \* transformer: the raw page handed to transformNotionPageToContent
    xBlocks,    \* transformer: the block list handed to it
    xFields,    \* transformer: what each extractor returned for the page
    xOut,       \* transformer: what the call returned (NotRun before the call)
    imageMap,   \* image cache: originalUrl -> localPath
    disk,       \* image cache: the names of the files in public/images
    calls,      \* image cache: where each caller's cacheImage call stands
    lastCall,   \* image cache: the call that returned last, with what it did
    firstPath,  \* image cache: per URL, the first local path a call returned for it
    remote,     \* loader: the result pages the remote serves, per resource
    pageCache,  \* loader: NotionLoader.pageCache
    fetch,      \* loader: where the pagination loop under way stands
    fetched,    \* loader: what the last fetchAllPages or fetchPageBlocks call came to
    content,    \* backup: the content list handed to saveIndividualContent
    save,       \* backup: where the loops of saveIndividualContent stand
    files,      \* backup: the files of the backup directory: path -> the item written
    tIn,        \* loader: the page transformPage is given, its blocks, and the network
    contentCache, \* loader: the static contentCache, cache key -> content
    tp,         \* loader: where the transformPage call under way stands
    tOut,       \* loader: what the last transformPage call came to
    db,         \* queries: the result pages the remote serves for the database
    query,      \* queries: where the query under way stands
    qOut,       \* queries: what the last query came to
    status,     \* publishing: the Status of every page of the database
    pub,        \* publishing: where updateStatusToPublished stands
    api,        \* endpoint: the request GET was given and what it answered
    fn,         \* filenames: the arguments of a generateFilename call and its result
    queries,    \* overlapping queries: where each caller's query stands
    requests,   \* overlapping queries: the requests sent to the remote so far
    run,        \* backup run: where generateBackup stands, and how the process ended
    heap,       \* block rewriting: the objects in memory, address -> object
    walk,       \* block rewriting: the list cacheBlockImages was given and what it returned
    second      \* block rewriting: a second cacheBlockImages call, on the result of the first

xvars == <<xPage, xBlocks, xFields, xOut>>
cvars == <<imageMap, disk, calls, lastCall, firstPath>>
lvars == <<remote, pageCache, fetch, fetched>>
bvars == <<content, save, files>>
tvars == <<tIn, contentCache, tp, tOut>>
qvars == <<db, query, qOut>>
pvars == <<status, pub>>
avars == <<api>>
fvars == <<fn>>
ovars == <<queries, requests>>
gvars == <<run>>
hvars == <<heap, walk, second>>
nvars == <<pvars, avars, fvars, ovars, gvars, hvars>>
vars == <<xvars, cvars, lvars, bvars, tvars, qvars, nvars>>

-----------------------------------------------------------------------------
(* JavaScript values *)

Undefined == [t |-> "undefined"]
Null == [t |-> "null"]
Throw == [t |-> "throw"]
Str(s) == [t |-> "string", s |-> s]
Num(n) == [t |-> "number", n |-> n]
Arr(a) == [t |-> "array", a |-> a]
Obj(o) == [t |-> "object", o |-> o]
Bool(b) == [t |-> "boolean", b |-> b]

EmptyStr == Str(<<>>)
NotRun == [t |-> "notrun"]

IsThrow(v) == v.t = "throw"
IsNullish(v) == v.t = "undefined" \/ v.t = "null"

\* JavaScript truthiness of a value
Truthy(v) ==
    CASE v.t = "undefined" -> FALSE
      [] v.t = "null" -> FALSE
      [] v.t = "string" -> v.s # <<>>
      [] v.t = "number" -> v.n # 0
      [] v.t = "boolean" -> v.b
      [] OTHER -> TRUE

\* v.k : reading a property of undefined or null raises a TypeError
Get(v, k) ==
    IF IsThrow(v) \/ IsNullish(v) THEN Throw
    ELSE IF v.t = "object" /\ k \in DOMAIN v.o THEN v.o[k]
    ELSE Undefined

\* v?.k
OptGet(v, k) ==
    IF IsThrow(v) THEN Throw
    ELSE IF IsNullish(v) THEN Undefined
    ELSE Get(v, k)

\* a || b
Or(a, b) == IF IsThrow(a) THEN Throw ELSE IF Truthy(a) THEN a ELSE b

\* v.length
LengthOf(v) ==
    IF IsThrow(v) \/ IsNullish(v) THEN Throw
    ELSE IF v.t = "array" THEN Num(Len(v.a))
    ELSE IF v.t = "string" THEN Num(Len(v.s))
    ELSE Get(v, "length")

\* v[0]
First(v) ==
    IF IsThrow(v) \/ IsNullish(v) THEN Throw
    ELSE IF v.t = "array" THEN (IF Len(v.a) > 0 THEN v.a[1] ELSE Undefined)
    ELSE IF v.t = "string" THEN (IF Len(v.s) > 0 THEN Str(<<v.s[1]>>) ELSE Undefined)
    ELSE Undefined

Digit(d) == <<"0", "1", "2", "3", "4", "5", "6", "7", "8", "9">>[d + 1]

RECURSIVE NatToStr(_)
NatToStr(n) == IF n < 10 THEN <<Digit(n)>> ELSE NatToStr(n \div 10) \o <<Digit(n % 10)>>

\* String(v), as Array.prototype.join applies it to one element
ToStr(v) ==
    CASE v.t = "string" -> v.s
      [] v.t = "number" -> (IF v.n < 0 THEN <<"-">> \o NatToStr(-v.n) ELSE NatToStr(v.n))
      [] IsNullish(v) -> <<>>
      [] v.t = "boolean" -> (IF v.b THEN <<"t", "r", "u", "e">> ELSE <<"f", "a", "l", "s", "e">>)
      [] OTHER -> <<"[", "o", "b", "j", "e", "c", "t", "]">>

RECURSIVE JoinAll(_)
JoinAll(a) == IF a = <<>> THEN <<>> ELSE ToStr(Head(a)) \o JoinAll(Tail(a))

\* arr.map((item) => item.plain_text || '').join('')
PlainTextJoin(arr) ==
    IF IsThrow(arr) \/ IsNullish(arr) THEN Throw
    ELSE IF arr.t # "array" THEN Throw             \* .map is not a function
    ELSE IF \E i \in 1..Len(arr.a) : IsNullish(arr.a[i]) THEN Throw
    ELSE Str(JoinAll([i \in 1..Len(arr.a) |-> Or(Get(arr.a[i], "plain_text"), EmptyStr)]))

\* rt?.map((item) => item.plain_text || '').join('')
OptPlainTextJoin(rt) ==
    IF IsThrow(rt) THEN Throw
    ELSE IF IsNullish(rt) THEN Undefined
    ELSE PlainTextJoin(rt)

\* Merging objects: {...base, ...extra}
Spread(base, extra) == extra @@ base

-----------------------------------------------------------------------------
(* The string literals the code compares with *)

ARTICLE == <<"a", "r", "t", "i", "c", "l", "e">>
COMIC == <<"c", "o", "m", "i", "c">>
PODCAST == <<"p", "o", "d", "c", "a", "s", "t">>
EXTERNAL == <<"e", "x", "t", "e", "r", "n", "a", "l">>
FILE == <<"f", "i", "l", "e">>
IMAGE == <<"i", "m", "a", "g", "e">>
AUDIO == <<"a", "u", "d", "i", "o">>
VIDEO == <<"v", "i", "d", "e", "o">>
PARAGRAPH == <<"p", "a", "r", "a", "g", "r", "a", "p", "h">>
HEADING_1 == <<"h", "e", "a", "d", "i", "n", "g", "_", "1">>
HEADING_2 == <<"h", "e", "a", "d", "i", "n", "g", "_", "2">>
HEADING_3 == <<"h", "e", "a", "d", "i", "n", "g", "_", "3">>
CALLOUT == <<"c", "a", "l", "l", "o", "u", "t">>

\* The key under which a block of the given type carries its payload: block[block.type]
TypeKey(ty) ==
    CASE ty = IMAGE -> "image"
      [] ty = AUDIO -> "audio"
      [] ty = VIDEO -> "video"
      [] ty = FILE -> "file"
      [] ty = PARAGRAPH -> "paragraph"
      [] ty = HEADING_1 -> "heading_1"
      [] ty = HEADING_2 -> "heading_2"
      [] ty = HEADING_3 -> "heading_3"
      [] ty = CALLOUT -> "callout"
      [] OTHER -> "unknown"

-----------------------------------------------------------------------------
(* Property extractors (transformers.ts) *)

extractRichText(property) ==
    IF ~Truthy(property) \/ ~Truthy(Get(property, "rich_text")) THEN EmptyStr
    ELSE PlainTextJoin(Get(property, "rich_text"))

extractTitle(property) ==
    IF ~Truthy(property) THEN EmptyStr
    ELSE PlainTextJoin(Or(Or(Get(property, "title"), Get(property, "name")), Arr(<<>>)))

extractMultiSelect(property) ==
    IF ~Truthy(property) \/ ~Truthy(Get(property, "multi_select")) THEN Arr(<<>>)
    ELSE LET ms == Get(property, "multi_select") IN
         IF ms.t # "array" THEN Throw               \* .map is not a function
         ELSE IF \E i \in 1..Len(ms.a) : IsNullish(ms.a[i]) THEN Throw
         ELSE Arr([i \in 1..Len(ms.a) |-> Get(ms.a[i], "name")])

extractSelect(property) ==
    IF ~Truthy(property) \/ ~Truthy(Get(property, "select")) THEN EmptyStr
    ELSE Or(Get(Get(property, "select"), "name"), EmptyStr)

\* The part of s before the first "T": s.split('T')[0]
RECURSIVE BeforeT(_)
BeforeT(s) ==
    IF s = <<>> \/ Head(s) = "T" THEN <<>> ELSE <<Head(s)>> \o BeforeT(Tail(s))

\* extractDate without its guard on the date payload
extractDateUnguarded(property) ==
    IF ~Truthy(property) THEN EmptyStr
    ELSE LET date == Get(Get(property, "date"), "start") IN
         IF IsThrow(date) THEN Throw
         ELSE IF ~Truthy(date) THEN EmptyStr
         ELSE IF date.t # "string" THEN Throw
         ELSE Str(BeforeT(date.s))

extractDate(property) ==
    IF ~Truthy(property) \/ ~Truthy(Get(property, "date")) THEN EmptyStr
    ELSE LET date == Get(Get(property, "date"), "start") IN
         IF ~Truthy(date) THEN EmptyStr
         ELSE IF date.t # "string" THEN Throw       \* .split is not a function
         ELSE Str(BeforeT(date.s))

\* extractNumber cutting the number down to its whole part
extractNumberWhole(property) ==
    IF ~Truthy(property) \/ IsNullish(Get(property, "number")) THEN Num(0)
    ELSE IF IsThrow(Get(property, "number")) THEN Throw
    ELSE Num(Get(property, "number").n)

extractNumber(property) ==
    IF ~Truthy(property) \/ IsNullish(Get(property, "number")) THEN Num(0)
    ELSE Get(property, "number")

extractFileUrl(property) ==
    IF ~Truthy(property) \/ ~Truthy(Get(property, "files"))
         \/ LengthOf(Get(property, "files")) = Num(0) THEN Undefined
    ELSE LET file == First(Get(property, "files")) IN
         IF IsThrow(Get(file, "type")) THEN Throw
         ELSE IF Get(file, "type") = Str(EXTERNAL) THEN Get(Get(file, "external"), "url")
         ELSE IF Get(file, "type") = Str(FILE) THEN Get(Get(file, "file"), "url")
         ELSE Undefined

-----------------------------------------------------------------------------
(* Content transformers (transformers.ts) *)

\* new Date().toISOString(): the time of the transform, opaque to the pipeline
NowIso == Str(<<"n", "o", "w">>)

\* The extractor calls of transformToBaseContent, one per field of the content
ExtractAll(page) ==
    LET props == Get(page, "properties") IN
    [title |-> extractTitle(Or(Get(props, "Title"), Get(props, "Name"))),
     slug |-> extractRichText(Get(props, "Slug")),
     contentType |-> extractSelect(Get(props, "Content Type")),
     date |-> extractDate(Get(props, "Date")),
     locationName |-> extractRichText(Get(props, "Location")),
     webCategory |-> extractSelect(Get(props, "Web Category")),
     project |-> extractMultiSelect(Get(props, "Project")),
     concepts |-> extractMultiSelect(Get(props, "Concepts")),
     intentVector |-> extractRichText(Get(props, "Intent Vector")),
     sdIndex |-> extractNumber(Or(Get(props, "SD-IndexTM"), Get(props, "SD-Index"))),
     heroImage |-> extractFileUrl(Get(props, "Hero Image"))]

transformToBaseContent(page, blocks) ==
    LET x == ExtractAll(page) IN
    IF IsThrow(Get(page, "properties")) \/ (\E f \in DOMAIN x : IsThrow(x[f]))
    THEN Throw
    ELSE Obj([id |-> Get(page, "id"),
              contentType |-> x.contentType,
              title |-> x.title,
              date |-> x.date,
              slug |-> x.slug,
              location |-> Obj([name |-> x.locationName]),
              webCategory |-> x.webCategory,
              project |-> x.project,
              concepts |-> x.concepts,
              intentVector |-> x.intentVector,
              sdIndex |-> x.sdIndex,
              heroImage |-> x.heroImage,
              blocks |-> Arr(blocks),
              dialogue |-> Undefined,
              philosophical_insight |-> Undefined,
              emotion_trajectory |-> Undefined,
              embedding |-> Null,
              schema_version |-> Str(<<"1", ".", "0">>),
              last_updated |-> NowIso,
              language |-> Str(<<"e", "n">>)])

\* b.type === ty, for a block b of the list (reading .type of null raises)
HasType(b, ty) == Get(b, "type") = Str(ty)

\* block.<key>?.rich_text?.map(item => item.plain_text || '').join('')
BlockText(block, key) == OptPlainTextJoin(OptGet(Get(block, key), "rich_text"))

IsSpace(c) == c \in {" ", "\t", "\n"}

\* text.split(/\s+/).length: one more than the number of runs of whitespace
SplitCount(s) ==
    1 + Cardinality({i \in 1..Len(s) : IsSpace(s[i]) /\ (i = 1 \/ ~IsSpace(s[i - 1]))})

ExcerptLength == 200
WordsPerMinute == 200

\* text.substring(0, n)
Substring0(s, n) == SubSeq(s, 1, IF Len(s) < n THEN Len(s) ELSE n)

\* Math.ceil(a / b) for a >= 0, b > 0
CeilDiv(a, b) == (a + b - 1) \div b

\* The index of the first block b with b.type === ty, 0 when there is none;
\* -1 when the scan raises on a block that is null or undefined
RECURSIVE FindIndex(_, _, _)
FindIndex(blocks, tys, i) ==
    IF i > Len(blocks) THEN 0
    ELSE IF IsNullish(blocks[i]) THEN -1
    ELSE IF \E ty \in tys : HasType(blocks[i], ty) THEN i
    ELSE FindIndex(blocks, tys, i + 1)

\* blocks.filter(b => b.type === 'paragraph').reduce(count + text.split(/\s+/).length, 0)
\* from block i on; -1 when a block raises. Blocks i..mid are counted first and
\* the rest after them, which keeps the evaluation shallow on long lists
RECURSIVE WordCount(_, _, _)
WordCount(blocks, i, count) ==
    IF i > Len(blocks) THEN count
    ELSE IF i < Len(blocks)
    THEN LET mid == (i + Len(blocks)) \div 2
             Rest(counted) ==
                 IF counted = -1 THEN -1 ELSE WordCount(blocks, mid + 1, counted)
         IN  Rest(WordCount(SubSeq(blocks, 1, mid), i, count))
    ELSE IF IsNullish(blocks[i]) THEN -1
    ELSE IF ~HasType(blocks[i], PARAGRAPH) THEN count
    ELSE LET text == Or(BlockText(blocks[i], "paragraph"), EmptyStr) IN
         IF IsThrow(text) THEN -1
         ELSE count + SplitCount(text.s)

transformToArticleContent(base, blocks) ==
    LET fp == FindIndex(blocks, {PARAGRAPH}, 1)
        excerpt ==
            IF fp = -1 THEN Throw
            ELSE IF fp > 0 /\ Truthy(Get(blocks[fp], "paragraph"))
            THEN LET text == Or(OptPlainTextJoin(Get(Get(blocks[fp], "paragraph"), "rich_text")),
                                EmptyStr)
                 IN  IF IsThrow(text) THEN Throw
                     ELSE Str(Substring0(ToStr(text), ExcerptLength))
            ELSE EmptyStr
        wordCount == WordCount(blocks, 1, 0)
    IN  IF IsThrow(base) \/ IsThrow(excerpt) \/ wordCount = -1 THEN Throw
        ELSE Obj(Spread(base.o, [contentType |-> Str(ARTICLE),
                                 excerpt |-> excerpt,
                                 readingTime |-> Num(CeilDiv(wordCount, WordsPerMinute))]))

PanelWidth == 800
PanelHeight == 600

\* ComicPanels numbering a panel by the position of its block in the list
RECURSIVE ComicPanelsByPosition(_, _, _, _)
ComicPanelsByPosition(blocks, index, panelNumber, panels) ==
    IF index > Len(blocks) THEN Arr(panels)
    ELSE IF IsNullish(blocks[index]) THEN Throw
    ELSE IF ~HasType(blocks[index], IMAGE)
    THEN ComicPanelsByPosition(blocks, index + 1, panelNumber, panels)
    ELSE LET block == blocks[index]
             image == Get(block, "image")
             imageUrl == Or(Or(OptGet(OptGet(image, "file"), "url"),
                               OptGet(OptGet(image, "external"), "url")), EmptyStr)
             caption == Or(OptPlainTextJoin(OptGet(image, "caption")), EmptyStr)
             narration ==
                 IF index < Len(blocks)
                 THEN IF IsNullish(blocks[index + 1]) THEN Throw
                      ELSE IF HasType(blocks[index + 1], PARAGRAPH)
                      THEN BlockText(blocks[index + 1], "paragraph")
                      ELSE Undefined
                 ELSE Undefined
         IN  IF IsThrow(imageUrl) \/ IsThrow(caption) \/ IsThrow(narration) THEN Throw
             ELSE ComicPanelsByPosition(blocks, index + 1, panelNumber + 1,
                      Append(panels, Obj([panelNumber |-> Num(index),
                                          imageUrl |-> imageUrl,
                                          width |-> Num(PanelWidth),
                                          height |-> Num(PanelHeight),
                                          altText |-> caption,
                                          narration |-> narration])))

\* The forEach of transformToComicContent from block `index` on, with the panels
\* pushed so far and the next panel number; Throw when a block raises
RECURSIVE ComicPanels(_, _, _, _)
ComicPanels(blocks, index, panelNumber, panels) ==
    IF index > Len(blocks) THEN Arr(panels)
    ELSE IF IsNullish(blocks[index]) THEN Throw
    ELSE IF ~HasType(blocks[index], IMAGE)
    THEN ComicPanels(blocks, index + 1, panelNumber, panels)
    ELSE LET block == blocks[index]
             image == Get(block, "image")
             imageUrl == Or(Or(OptGet(OptGet(image, "file"), "url"),
                               OptGet(OptGet(image, "external"), "url")), EmptyStr)
             caption == Or(OptPlainTextJoin(OptGet(image, "caption")), EmptyStr)
             narration ==
                 IF index < Len(blocks)
                 THEN IF IsNullish(blocks[index + 1]) THEN Throw
                      ELSE IF HasType(blocks[index + 1], PARAGRAPH)
                      THEN BlockText(blocks[index + 1], "paragraph")
                      ELSE Undefined
                 ELSE Undefined
         IN  IF IsThrow(imageUrl) \/ IsThrow(caption) \/ IsThrow(narration) THEN Throw
             ELSE ComicPanels(blocks, index + 1, panelNumber + 1,
                      Append(panels, Obj([panelNumber |-> Num(panelNumber),
                                          imageUrl |-> imageUrl,
                                          width |-> Num(PanelWidth),
                                          height |-> Num(PanelHeight),
                                          altText |-> caption,
                                          narration |-> narration])))

transformToComicContent(base, blocks) ==
    LET panels == ComicPanels(blocks, 1, 1, <<>>)
        calloutScan == FindIndex(blocks, {}, 1)    \* blocks.filter(b => b.type === 'callout')
    IN  IF IsThrow(base) \/ IsThrow(panels) \/ calloutScan = -1 THEN Throw
        ELSE Obj(Spread(base.o, [contentType |-> Str(COMIC),
                                 episodeNumber |-> Num(1),
                                 panels |-> panels,
                                 sensoryMemory |-> Undefined]))

TranscriptTypes == {PARAGRAPH, HEADING_1, HEADING_2, HEADING_3}

\* TranscriptLine giving a heading as its bare text
TranscriptLinePlain(block) ==
    IF \E ty \in {HEADING_1, HEADING_2, HEADING_3} : HasType(block, ty)
    THEN Or(BlockText(block, TypeKey(Get(block, "type").s)), EmptyStr)
    ELSE Or(BlockText(block, "paragraph"), EmptyStr)

\* One entry of the transcript: the map callback of transformToPodcastContent
TranscriptLine(block) ==
    IF \E ty \in {HEADING_1, HEADING_2, HEADING_3} : HasType(block, ty)
    THEN LET text == Or(BlockText(block, TypeKey(Get(block, "type").s)), EmptyStr) IN
         IF IsThrow(text) THEN Throw
         ELSE Str(<<"\n", "#", "#", " ">> \o ToStr(text) \o <<"\n">>)
    ELSE Or(BlockText(block, "paragraph"), EmptyStr)

\* blocks.filter(...).map(...).join('\n') from block i on; `first` until a line is out
RECURSIVE Transcript(_, _, _)
Transcript(blocks, i, first) ==
    IF i > Len(blocks) THEN EmptyStr
    ELSE IF IsNullish(blocks[i]) THEN Throw
    ELSE IF ~(\E ty \in TranscriptTypes : HasType(blocks[i], ty))
    THEN Transcript(blocks, i + 1, first)
    ELSE LET line == TranscriptLine(blocks[i])
             rest == Transcript(blocks, i + 1, FALSE)
         IN  IF IsThrow(line) \/ IsThrow(rest) THEN Throw
             ELSE Str((IF first THEN <<>> ELSE <<"\n">>) \o ToStr(line) \o rest.s)

ZeroTime == Str(<<"0", ":", "0", "0">>)

\* transformToPodcastContent keeping the discriminator of the base
transformToPodcastKeepType(base, blocks) ==
    IF IsThrow(base) \/ IsThrow(Transcript(blocks, 1, TRUE)) THEN Throw
    ELSE Obj(Spread(base.o, [contentType |-> Str(ARTICLE),
                             audioFile |-> Obj([url |-> EmptyStr, duration |-> ZeroTime]),
                             transcript |-> Transcript(blocks, 1, TRUE)]))

transformToPodcastContent(base, blocks) ==
    LET fb == FindIndex(blocks, {FILE, VIDEO}, 1)
        url ==
            IF fb = -1 THEN Throw
            ELSE IF fb = 0 THEN EmptyStr
            ELSE Or(Or(OptGet(OptGet(Get(blocks[fb], "file"), "file"), "url"),
                       OptGet(OptGet(Get(blocks[fb], "video"), "file"), "url")), EmptyStr)
        transcript == Transcript(blocks, 1, TRUE)
    IN  IF IsThrow(base) \/ IsThrow(url) \/ IsThrow(transcript) THEN Throw
        ELSE Obj(Spread(base.o,
                 [contentType |-> Str(PODCAST),
                  audioFile |-> Obj([url |-> url, duration |-> ZeroTime]),
                  structure |-> Obj([intro |-> Obj([timestamp |-> ZeroTime, summary |-> EmptyStr]),
                                     mainContent |-> Obj([timestamp |-> ZeroTime, topics |-> Arr(<<>>)]),
                                     outro |-> Obj([timestamp |-> ZeroTime, summary |-> EmptyStr])]),
                  transcript |-> transcript]))

\* The switch without its default branch: an unknown type is handed on as it is
DispatchNoFallback(base, blocks) ==
    CASE Get(base, "contentType") = Str(ARTICLE) -> transformToArticleContent(base, blocks)
      [] Get(base, "contentType") = Str(COMIC) -> transformToComicContent(base, blocks)
      [] Get(base, "contentType") = Str(PODCAST) -> transformToPodcastContent(base, blocks)
      [] OTHER -> base

\* The switch on base.contentType
Dispatch(base, blocks) ==
    CASE Get(base, "contentType") = Str(ARTICLE) -> transformToArticleContent(base, blocks)
      [] Get(base, "contentType") = Str(COMIC) -> transformToComicContent(base, blocks)
      [] Get(base, "contentType") = Str(PODCAST) -> transformToPodcastContent(base, blocks)
      [] OTHER -> transformToArticleContent(base, blocks)

transformNotionPageToContent(page, blocks) ==
    LET base == transformToBaseContent(page, blocks) IN
    IF IsThrow(base) THEN Throw ELSE Dispatch(base, blocks)

-----------------------------------------------------------------------------
(* The pages and block lists handed to the transformer *)

MaxBlocks == 4          \* longest block list of well-formed blocks
MaxOddBlocks == 2       \* longest block list that mixes in malformed blocks
MaxTranscript == 3      \* longest block list of a podcast with headings of every level

Frag(s) == Obj([type |-> Str(<<"t", "e", "x", "t">>), plain_text |-> Str(s)])
BareFrag == Obj([type |-> Str(<<"t", "e", "x", "t">>)])          \* no plain_text
Tagged(kind) == Obj([type |-> Str(kind)])

UrlA == <<"h", "/", "a", ".", "p", "n", "g">>
UrlB == <<"h", "/", "b">>

\* A property as the remote delivers it when nothing is wrong
TitleProp(frags) == Obj([type |-> Str(<<"t">>), title |-> Arr(frags)])
NameProp(frags) == Obj([type |-> Str(<<"t">>), name |-> Arr(frags)])
RichTextProp(frags) == Obj([type |-> Str(<<"r">>), rich_text |-> Arr(frags)])
SelectProp(name) == Obj([type |-> Str(<<"s">>), select |-> Obj([name |-> Str(name)])])
MultiSelectProp(names) ==
    Obj([type |-> Str(<<"m">>),
         multi_select |-> Arr([i \in 1..Len(names) |-> Obj([name |-> Str(names[i])])])])
DateProp(start) == Obj([type |-> Str(<<"d">>), date |-> Obj([start |-> Str(start)])])
NumberProp(n) == Obj([type |-> Str(<<"n">>), number |-> Num(n)])
FilesProp(entries) == Obj([type |-> Str(<<"f">>), files |-> Arr(entries)])
HostedFile(url) == Obj([type |-> Str(FILE), file |-> Obj([url |-> Str(url)])])
ExternalFile(url) == Obj([type |-> Str(EXTERNAL), external |-> Obj([url |-> Str(url)])])

\* The property is not there at all
Absent == [t |-> "absent"]

\* A property, or its typed payload, that is missing
MissingShapes(payload) ==
    {Absent, Null, Tagged(<<"x">>), Obj([type |-> Str(<<"x">>)] @@ (payload :> Null))}

\* Shapes of a present property that are not what the remote's schema promises
MalformedShapes(payload) ==
    CASE payload \in {"rich_text", "title"} ->
            {Obj([type |-> Str(<<"x">>)] @@ (payload :> Arr(<<Null>>))),
             Obj([type |-> Str(<<"x">>)] @@ (payload :> Arr(<<Frag(<<"a">>), Undefined>>))),
             Obj([type |-> Str(<<"x">>)] @@ (payload :> Str(<<"a">>)))}
      [] payload = "multi_select" ->
            {Obj([type |-> Str(<<"x">>), multi_select |-> Arr(<<Null>>)]),
             Obj([type |-> Str(<<"x">>), multi_select |-> Str(<<"a">>)])}
      [] payload = "date" ->
            {Obj([type |-> Str(<<"x">>), date |-> Obj([start |-> Num(5)])])}
      [] payload = "files" ->
            {FilesProp(<<Tagged(EXTERNAL)>>), FilesProp(<<Tagged(FILE)>>), FilesProp(<<Null>>),
             Obj([type |-> Str(<<"x">>), files |-> Tagged(<<"x">>)])}
      [] OTHER -> {}

\* Shapes the schema allows
GoodShapes(payload) ==
    CASE payload = "rich_text" ->
            {RichTextProp(<<>>), RichTextProp(<<Frag(<<"e", "p">>), Frag(<<"1">>)>>),
             RichTextProp(<<BareFrag, Frag(<<"a">>)>>)}
      [] payload = "title" -> {TitleProp(<<>>), TitleProp(<<Frag(<<"A">>), Frag(<<"b">>)>>)}
      [] payload = "select" ->
            {SelectProp(<<>>), SelectProp(<<"w">>), Obj([type |-> Str(<<"s">>), select |-> Tagged(<<"x">>)])}
      [] payload = "multi_select" ->
            {MultiSelectProp(<<>>), MultiSelectProp(<<<<"a">>, <<"B", " ", "c">>>>)}
      [] payload = "date" ->
            {DateProp(<<"2", "4", "T", "9">>), DateProp(<<"2", "4">>), DateProp(<<>>)}
      [] payload = "number" -> {NumberProp(0), NumberProp(7)}
      [] payload = "files" ->
            {FilesProp(<<>>), FilesProp(<<HostedFile(UrlA)>>),
             FilesProp(<<ExternalFile(UrlB), HostedFile(UrlA)>>),
             FilesProp(<<Tagged(<<"x">>)>>)}
      [] OTHER -> {}

\* The typed payload each property of the page is read through
PayloadOf ==
    [k \in {"Title", "Slug", "Content Type", "Date", "Location", "Web Category", "Project",
            "Concepts", "Intent Vector", "SD-IndexTM", "SD-Index", "Hero Image"} |->
        CASE k = "Title" -> "title"
          [] k \in {"Slug", "Location", "Intent Vector"} -> "rich_text"
          [] k \in {"Content Type", "Web Category"} -> "select"
          [] k \in {"Project", "Concepts"} -> "multi_select"
          [] k = "Date" -> "date"
          [] k \in {"SD-IndexTM", "SD-Index"} -> "number"
          [] OTHER -> "files"]

PropKeys == DOMAIN PayloadOf

\* A page on which every property is as the schema promises
GoodProps ==
    [k \in PropKeys |->
        CASE k = "Title" -> TitleProp(<<Frag(<<"T">>)>>)
          [] k = "Slug" -> RichTextProp(<<Frag(<<"e", "p">>), Frag(<<"1">>)>>)
          [] k = "Content Type" -> SelectProp(ARTICLE)
          [] k = "Date" -> DateProp(<<"2", "4", "T", "9">>)
          [] k = "Location" -> RichTextProp(<<Frag(<<"L">>)>>)
          [] k = "Web Category" -> SelectProp(<<"w">>)
          [] k = "Project" -> MultiSelectProp(<<<<"P">>>>)
          [] k = "Concepts" -> MultiSelectProp(<<>>)
          [] k = "Intent Vector" -> RichTextProp(<<Frag(<<"i">>)>>)
          [] k = "SD-IndexTM" -> NumberProp(7)
          [] k = "SD-Index" -> NumberProp(3)
          [] OTHER -> FilesProp(<<HostedFile(UrlA)>>)]

\* props with property k replaced by shape v (removed when v is Absent)
WithProp(props, k, v) ==
    IF v = Absent THEN [j \in (DOMAIN props) \ {k} |-> props[j]]
    ELSE [j \in (DOMAIN props) \cup {k} |-> IF j = k THEN v ELSE props[j]]

PageOf(props) ==
    Obj([id |-> Str(<<"p", "1">>), last_edited_time |-> Str(<<"t", "1">>),
         properties |-> Obj(props)])

\* Pages whose discriminator varies, everything else as promised
TypedPages ==
    {PageOf(WithProp(GoodProps, "Content Type", v)) :
        v \in {SelectProp(ARTICLE), SelectProp(COMIC), SelectProp(PODCAST),
               SelectProp(VIDEO), SelectProp(<<>>), Absent}}

\* Pages with one property missing, malformed or in another allowed shape
VariedPages ==
    {PageOf(WithProp(GoodProps, k, v)) :
        k \in PropKeys,
        v \in UNION {MissingShapes(p) \cup MalformedShapes(p) \cup GoodShapes(p) :
                        p \in {"title", "rich_text", "select", "multi_select", "date",
                               "number", "files"}}}

\* Pages that carry the title under the alternate property name
NamedPages ==
    {PageOf(WithProp(WithProp(GoodProps, "Title", Absent), "Name", v)) :
        v \in {NameProp(<<Frag(<<"N">>)>>), TitleProp(<<Frag(<<"N">>)>>)}}

Block(id, ty, payload) ==
    Obj([id |-> Str(id), type |-> Str(ty), has_children |-> Bool(FALSE)]
        @@ (TypeKey(ty) :> payload))

ImgHosted ==
    Block(<<"b", "1">>, IMAGE, Obj([type |-> Str(FILE), file |-> Obj([url |-> Str(UrlA)]),
                                    caption |-> Arr(<<Frag(<<"c">>)>>)]))
ImgExternal ==
    Block(<<"b", "2">>, IMAGE, Obj([type |-> Str(EXTERNAL), external |-> Obj([url |-> Str(UrlB)]),
                                    caption |-> Arr(<<>>)]))
Par(text) == Block(<<"b", "3">>, PARAGRAPH, Obj([rich_text |-> Arr(<<Frag(text)>>)]))
Heading2 == Block(<<"b", "4">>, HEADING_2, Obj([rich_text |-> Arr(<<Frag(<<"h">>)>>)]))
FileBlock ==
    Block(<<"b", "5">>, FILE, Obj([type |-> Str(FILE), file |-> Obj([url |-> Str(UrlB)])]))
Callout == Block(<<"b", "6">>, CALLOUT, Obj([rich_text |-> Arr(<<>>)]))
EmptyPar == Block(<<"b", "7">>, PARAGRAPH, Obj([rich_text |-> Arr(<<>>)]))
\* not what the schema promises
NullFragPar == Block(<<"b", "8">>, PARAGRAPH, Obj([rich_text |-> Arr(<<Null>>)]))
BarePar == Obj([id |-> Str(<<"b", "9">>), type |-> Str(PARAGRAPH)])
BareImg == Obj([id |-> Str(<<"b", "0">>), type |-> Str(IMAGE)])

Heading1 == Block(<<"b", "a">>, HEADING_1, Obj([rich_text |-> Arr(<<Frag(<<"a">>)>>)]))
Heading3 == Block(<<"b", "c">>, HEADING_3, Obj([rich_text |-> Arr(<<Frag(<<"c">>)>>)]))

CoreBlocks == {ImgHosted, ImgExternal, Par(<<"n", " ", "1">>), Heading2}
MalformedBlocks == {NullFragPar, BarePar, BareImg, Null}
OddBlocks == CoreBlocks \cup {FileBlock, Callout, EmptyPar} \cup MalformedBlocks
TranscriptBlocks == {Heading1, Heading3, Par(<<"n", " ", "1">>), EmptyPar, ImgExternal}

ListsOver(S, n) == UNION {[1..m -> S] : m \in 0..n}

\* A number with a fractional part, whole + tenths / 10 with whole > 0
Decimal(whole, tenths) == [t |-> "number", n |-> whole, tenths |-> tenths]
DecimalProp(whole, tenths) == Obj([type |-> Str(<<"n">>), number |-> Decimal(whole, tenths)])

\* Pages with every pairing of the two index properties
IndexPages ==
    {PageOf(WithProp(WithProp(GoodProps, "SD-IndexTM", preferred), "SD-Index", alternate)) :
        preferred \in {Absent, NumberProp(0), NumberProp(7), DecimalProp(7, 5),
                       Obj([type |-> Str(<<"n">>), number |-> Null])},
        alternate \in {Absent, NumberProp(3), DecimalProp(2, 5)}}

\* The inputs: every discriminator with every block list, every shape of
\* every property with two block lists, every pairing of the index properties,
\* and a podcast with block lists that hold headings of every level
Inputs ==
    (TypedPages \X (ListsOver(CoreBlocks, MaxBlocks) \cup ListsOver(OddBlocks, MaxOddBlocks)))
    \cup ((VariedPages \cup NamedPages) \X {<<>>, <<ImgHosted, Par(<<"n", " ", "1">>)>>})
    \cup (IndexPages \X {<<>>})
    \cup ({PageOf(WithProp(GoodProps, "Content Type", SelectProp(PODCAST)))}
              \X ListsOver(TranscriptBlocks, MaxTranscript))

-----------------------------------------------------------------------------
(* The transformer as a state machine: an input is drawn, the call is made *)

\* The parts of the state a specification does not use stay as they are here
XIdle == xPage = Undefined /\ xBlocks = <<>> /\ xFields = NotRun /\ xOut = NotRun
CIdle ==
    /\ imageMap = <<>> /\ disk = {} /\ calls = <<>>
    /\ lastCall = NotRun /\ firstPath = <<>>

LIdle == remote = <<>> /\ pageCache = Null /\ fetch = NotRun /\ fetched = NotRun
BIdle == content = <<>> /\ save = NotRun /\ files = <<>>
TIdle == tIn = NotRun /\ contentCache = <<>> /\ tp = NotRun /\ tOut = NotRun
QIdle == db = <<>> /\ query = NotRun /\ qOut = NotRun
PIdle == status = <<>> /\ pub = NotRun
AIdle == api = NotRun
FIdle == fn = NotRun
OIdle == queries = <<>> /\ requests = <<>>
GIdle == run = NotRun
HIdle == heap = <<>> /\ walk = NotRun /\ second = NotRun
NIdle == PIdle /\ AIdle /\ FIdle /\ OIdle /\ GIdle /\ HIdle

XInit ==
    /\ \E in \in Inputs : xPage = in[1] /\ xBlocks = in[2]
    /\ xFields = NotRun
    /\ xOut = NotRun
    /\ CIdle /\ LIdle /\ BIdle /\ TIdle /\ QIdle /\ NIdle

Transform ==
    /\ xOut = NotRun
    /\ xFields' = ExtractAll(xPage)
    /\ xOut' = transformNotionPageToContent(xPage, xBlocks)
    /\ UNCHANGED <<xPage, xBlocks, cvars, lvars, bvars, tvars, qvars, nvars>>

SpecTransform == XInit /\ [][Transform]_vars

-----------------------------------------------------------------------------
(* What the claims about the transformer speak of, read off the input itself *)

Props == xPage.o.properties.o
PropOf(k) == IF k \in DOMAIN Props THEN Props[k] ELSE Undefined

\* The property an extractor is handed: the first of the alternates that is there
Expected(k1, k2) == IF ~IsNullish(PropOf(k1)) THEN PropOf(k1) ELSE PropOf(k2)

\* The property, or its typed payload, is absent
Missing(prop, payload) ==
    \/ IsNullish(prop)
    \/ prop.t = "object" /\ (payload \notin DOMAIN prop.o \/ IsNullish(prop.o[payload]))

\* The name selected under the page's Content Type, <<>> when there is none
DeclaredType ==
    LET p == PropOf("Content Type") IN
    IF Missing(p, "select") THEN <<>>
    ELSE IF p.o.select.t = "object" /\ "name" \in DOMAIN p.o.select.o
            /\ p.o.select.o.name.t = "string"
    THEN p.o.select.o.name.s
    ELSE <<>>

WellFormedInput ==
    /\ xPage \in TypedPages
    /\ \A i \in 1..Len(xBlocks) : xBlocks[i] \notin MalformedBlocks

Returned == xOut.t = "object"
Present(f) == f \in DOMAIN xOut.o /\ xOut.o[f] # Undefined

VariantFields ==
    {"excerpt", "readingTime", "episodeNumber", "season", "philosophicalQuestion", "panels",
     "sensoryMemory", "audioFile", "structure", "transcript"}

FieldsOf(ct) ==
    CASE ct = ARTICLE -> {"excerpt", "readingTime"}
      [] ct = COMIC -> {"episodeNumber", "panels"}
      [] ct = PODCAST -> {"audioFile", "structure", "transcript"}

(* C4: the returned value's contentType is article, comic or podcast, and the
   variant fields that carry a value are exactly those of that type. *)
C4_VariantDetermined ==
    Returned =>
        \E ct \in {ARTICLE, COMIC, PODCAST} :
            /\ xOut.o.contentType = Str(ct)
            /\ {f \in VariantFields : Present(f)} = FieldsOf(ct)
            /\ (DeclaredType \in {ARTICLE, COMIC, PODCAST} => ct = DeclaredType)

C4_Witness ==
    /\ Returned /\ xOut.o.contentType = Str(PODCAST) /\ Present("transcript")
    /\ Len(xBlocks) = 2

(* C5: a page whose Content Type is empty, absent or not one of the three is
   transformed without an error into an article. *)
C5_UnknownTypeIsArticle ==
    (xOut # NotRun /\ WellFormedInput /\ DeclaredType \notin {ARTICLE, COMIC, PODCAST}) =>
        /\ Returned
        /\ xOut.o.contentType = Str(ARTICLE)
        /\ Present("excerpt") /\ Present("readingTime")
        /\ ~Present("panels") /\ ~Present("transcript")

C5_Witness ==
    /\ xOut # NotRun /\ WellFormedInput /\ DeclaredType = VIDEO
    /\ Returned /\ xOut.o.contentType = Str(ARTICLE)

(* C6: an extractor whose property, or its typed payload, is absent returns
   its default: the empty string for title, rich text, select and date, the
   empty sequence for multi-select, 0 for number, none for the file URL. *)
C6_MissingGivesDefault ==
    xOut # NotRun =>
        /\ Missing(Expected("Title", "Name"), "title")
              /\ Missing(Expected("Title", "Name"), "name") => xFields.title = EmptyStr
        /\ Missing(PropOf("Slug"), "rich_text") => xFields.slug = EmptyStr
        /\ Missing(PropOf("Location"), "rich_text") => xFields.locationName = EmptyStr
        /\ Missing(PropOf("Intent Vector"), "rich_text") => xFields.intentVector = EmptyStr
        /\ Missing(PropOf("Content Type"), "select") => xFields.contentType = EmptyStr
        /\ Missing(PropOf("Web Category"), "select") => xFields.webCategory = EmptyStr
        /\ Missing(PropOf("Date"), "date") => xFields.date = EmptyStr
        /\ Missing(PropOf("Project"), "multi_select") => xFields.project = Arr(<<>>)
        /\ Missing(PropOf("Concepts"), "multi_select") => xFields.concepts = Arr(<<>>)
        /\ Missing(Expected("SD-IndexTM", "SD-Index"), "number") => xFields.sdIndex = Num(0)
        /\ Missing(PropOf("Hero Image"), "files") => xFields.heroImage = Undefined

C6_Witness ==
    /\ xOut # NotRun /\ "Date" \notin DOMAIN Props /\ xFields.date = EmptyStr
    /\ Returned /\ xOut.o.date = EmptyStr

(* C7: no extractor raises, whatever the shape of the property it is handed,
   so the transformation of a page with well-formed blocks never raises. *)
C7_ExtractorsTotal ==
    xOut # NotRun =>
        /\ \A f \in DOMAIN xFields : ~IsThrow(xFields[f])
        /\ (\A i \in 1..Len(xBlocks) : xBlocks[i] \notin MalformedBlocks) => ~IsThrow(xOut)

\* The positions of the image blocks of the input, and the k-th of them
ImagePositions ==
    {i \in 1..Len(xBlocks) : xBlocks[i].t = "object" /\ xBlocks[i].o.type = Str(IMAGE)}
NthImage(k) == CHOOSE i \in ImagePositions : Cardinality({j \in ImagePositions : j < i}) = k - 1

\* The text a paragraph block shows: its fragments' plain texts, one after the other
RECURSIVE FragmentsText(_)
FragmentsText(frags) ==
    IF frags = <<>> THEN <<>>
    ELSE (IF "plain_text" \in DOMAIN Head(frags).o THEN Head(frags).o.plain_text.s ELSE <<>>)
         \o FragmentsText(Tail(frags))

\* The narration the block after position i gives: its text when it is a
\* paragraph that has text, none otherwise
NarrationAfter(i) ==
    IF i < Len(xBlocks) /\ xBlocks[i + 1].t = "object"
       /\ xBlocks[i + 1].o.type = Str(PARAGRAPH) /\ "paragraph" \in DOMAIN xBlocks[i + 1].o
    THEN Str(FragmentsText(xBlocks[i + 1].o.paragraph.o.rich_text.a))
    ELSE Undefined

\* The URL an image block carries: hosted first, external second, '' without one
UrlOfImage(b) ==
    IF "image" \notin DOMAIN b.o THEN EmptyStr
    ELSE IF "file" \in DOMAIN b.o.image.o THEN b.o.image.o.file.o.url
    ELSE IF "external" \in DOMAIN b.o.image.o THEN b.o.image.o.external.o.url
    ELSE EmptyStr

(* C9: a comic has exactly one panel per top-level image block, in document
   order, numbered 1, 2, ..., n; a panel's narration is the text of the block
   right after its image when that block is a paragraph, and absent otherwise. *)
C9_PanelsFollowImages ==
    (Returned /\ xOut.o.contentType = Str(COMIC)) =>
        LET panels == xOut.o.panels.a IN
        /\ Len(panels) = Cardinality(ImagePositions)
        /\ \A k \in 1..Len(panels) :
              /\ panels[k].o.panelNumber = Num(k)
              /\ panels[k].o.imageUrl = UrlOfImage(xBlocks[NthImage(k)])
              /\ panels[k].o.narration = NarrationAfter(NthImage(k))

\* image, paragraph, image, paragraph: two panels, each with its narration
C9_Witness ==
    /\ Returned /\ xOut.o.contentType = Str(COMIC)
    /\ Len(xBlocks) = 4 /\ ImagePositions = {1, 3}
    /\ Len(xOut.o.panels.a) = 2
    /\ xOut.o.panels.a[2].o.panelNumber = Num(2)
    /\ xOut.o.panels.a[2].o.narration = Str(<<"n", " ", "1">>)

\* The whitespace-delimited tokens of a text: its maximal runs of characters
\* that are not whitespace
Tokens(s) == Cardinality({i \in 1..Len(s) : ~IsSpace(s[i]) /\ (i = 1 \/ IsSpace(s[i - 1]))})

\* The texts of the paragraph blocks of a block list, block by block (empty for
\* a block that is no paragraph)
ParagraphText(block) ==
    IF HasType(block, PARAGRAPH) THEN ToStr(Or(BlockText(block, "paragraph"), EmptyStr))
    ELSE <<>>

RECURSIVE TotalTokens(_)
TotalTokens(blocks) ==
    IF blocks = <<>> THEN 0
    ELSE Tokens(ParagraphText(Head(blocks))) + TotalTokens(Tail(blocks))

(* C19: the readingTime of an article is ceil(W / 200), W the number of
   whitespace-delimited tokens over its paragraph blocks; an empty or
   whitespace-only paragraph adds nothing, an article without words has
   readingTime 0. *)
C19_ReadingTimeFromTokens ==
    (Returned /\ xOut.o.contentType = Str(ARTICLE)) =>
        xOut.o.readingTime = Num((TotalTokens(xBlocks) + 199) \div 200)

\* The number a property that is there carries, 0 when it carries none
NumberIn(property) ==
    IF "number" \in DOMAIN property.o /\ ~IsNullish(property.o.number)
    THEN property.o.number ELSE Num(0)

(* C21: sdIndex is the number of 'SD-Index(TM)' when the page has that
   property, else the number of 'SD-Index' (0 when neither carries a number);
   the number is passed through as it is. *)
C21_SdIndexPreferred ==
    Returned =>
        xOut.o.sdIndex =
            IF Truthy(PropOf("SD-IndexTM")) THEN NumberIn(PropOf("SD-IndexTM"))
            ELSE IF Truthy(PropOf("SD-Index")) THEN NumberIn(PropOf("SD-Index"))
            ELSE Num(0)

\* 'SD-Index(TM)' = 7.5 without the alternate: sdIndex is 7.5
C21_Witness ==
    /\ Returned
    /\ PropOf("SD-IndexTM") = DecimalProp(7, 5) /\ PropOf("SD-Index") = Undefined
    /\ xOut.o.sdIndex = Decimal(7, 5)

-----------------------------------------------------------------------------
(* The image cache (lib/image-cache.ts) *)

StartsWith(s, p) == Len(s) >= Len(p) /\ SubSeq(s, 1, Len(p)) = p

Lower(c) ==
    CASE c = "P" -> "p" [] c = "N" -> "n" [] c = "G" -> "g" [] c = "J" -> "j"
      [] c = "A" -> "a" [] c = "B" -> "b" [] c = "E" -> "e" [] c = "L" -> "l"
      [] c = "M" -> "m" [] c = "Y" -> "y" [] c = "W" -> "w" [] OTHER -> c
LowerCase(s) == [i \in 1..Len(s) |-> Lower(s[i])]

\* The least i >= from with s[i] \in cs, Len(s) + 1 when there is none
IndexOfAny(s, cs, from) ==
    IF \E i \in from..Len(s) : s[i] \in cs
    THEN CHOOSE i \in from..Len(s) : s[i] \in cs /\ \A j \in from..(i - 1) : s[j] \notin cs
    ELSE Len(s) + 1

HTTPS == <<"h", "t", "t", "p", "s", ":", "/", "/">>
NoPathname == <<"!">>

\* Pathname taking everything after the host, query and fragment included
PathnameWithQuery(url) ==
    IF ~StartsWith(url, HTTPS) THEN NoPathname
    ELSE LET rest == SubSeq(url, Len(HTTPS) + 1, Len(url))
             hostEnd == IndexOfAny(rest, {"/", "?", "#"}, 1)
         IN  IF hostEnd = 1 THEN NoPathname
             ELSE IF hostEnd > Len(rest) THEN <<"/">>
             ELSE SubSeq(rest, hostEnd, Len(rest))

\* new URL(url).pathname, NoPathname when new URL raises
Pathname(url) ==
    IF ~StartsWith(url, HTTPS) THEN NoPathname
    ELSE LET rest == SubSeq(url, Len(HTTPS) + 1, Len(url))
             hostEnd == IndexOfAny(rest, {"/", "?", "#"}, 1)
             pathEnd == IndexOfAny(rest, {"?", "#"}, hostEnd)
         IN  IF hostEnd = 1 THEN NoPathname
             ELSE IF hostEnd = pathEnd THEN <<"/">>
             ELSE SubSeq(rest, hostEnd, pathEnd - 1)

KnownExtensions ==
    {<<"j", "p", "g">>, <<"j", "p", "e", "g">>, <<"p", "n", "g">>, <<"g", "i", "f">>,
     <<"w", "e", "b", "p">>, <<"s", "v", "g">>, <<"m", "4", "a">>, <<"m", "p", "3">>}
DefaultExtension == <<".", "j", "p", "g">>

\* pathname.match(/\.(jpg|jpeg|png|gif|webp|svg|m4a|mp3)$/i): the matched suffix, <<>> without a match
MatchExtension(pathname) ==
    LET hits == {n \in 1..Len(pathname) :
                    /\ pathname[Len(pathname) - n + 1] = "."
                    /\ LowerCase(SubSeq(pathname, Len(pathname) - n + 2, Len(pathname)))
                          \in KnownExtensions}
    IN  IF hits = {} THEN <<>>
        ELSE LET n == CHOOSE n \in hits : TRUE IN
             SubSeq(pathname, Len(pathname) - n + 1, Len(pathname))

\* crypto.createHash('md5').update(url).digest('hex'): a name that tells the URLs apart
Md5(url) == <<"#">> \o url

generateFilename(url, stableId) ==
    LET name == IF Truthy(stableId) THEN stableId.s ELSE Md5(url)
        pathname == Pathname(url)
        ext == IF pathname # NoPathname /\ MatchExtension(pathname) # <<>>
               THEN LowerCase(MatchExtension(pathname))
               ELSE DefaultExtension
    IN  name \o ext

IMAGES == <<"/", "i", "m", "a", "g", "e", "s", "/">>
PublicPath(filename) == IMAGES \o filename

\* cacheImageSync without the look into the in-memory map
cacheImageSyncNoMemory(url, stableId, map, dsk) ==
    IF ~Truthy(url) THEN [done |-> TRUE, result |-> Null, map |-> map, checked |-> FALSE]
    ELSE IF StartsWith(url.s, IMAGES)
         THEN [done |-> TRUE, result |-> url, map |-> map, checked |-> FALSE]
    ELSE LET filename == generateFilename(url.s, stableId) IN
         IF filename \in dsk
         THEN [done |-> TRUE, result |-> Str(PublicPath(filename)),
               map |-> (url.s :> PublicPath(filename)) @@ map, checked |-> TRUE]
         ELSE [done |-> FALSE, filename |-> filename, checked |-> TRUE]

\* cacheImageSync looking for the file on disk before it looks at the URL
cacheImageSyncDiskFirst(url, stableId, map, dsk) ==
    IF ~Truthy(url) THEN [done |-> TRUE, result |-> Null, map |-> map, checked |-> FALSE]
    ELSE IF url.s \in DOMAIN map
         THEN [done |-> TRUE, result |-> Str(map[url.s]), map |-> map, checked |-> FALSE]
    ELSE LET filename == generateFilename(url.s, stableId) IN
         IF filename \in dsk
         THEN [done |-> TRUE, result |-> Str(PublicPath(filename)),
               map |-> (url.s :> PublicPath(filename)) @@ map, checked |-> TRUE]
         ELSE IF StartsWith(url.s, IMAGES)
         THEN [done |-> TRUE, result |-> url, map |-> map, checked |-> TRUE]
         ELSE [done |-> FALSE, filename |-> filename, checked |-> TRUE]

\* cacheImage up to its await: either it returns (done), or it goes to download.
\* checked: whether it looked for the file on disk (fs.existsSync)
cacheImageSync(url, stableId, map, dsk) ==
    IF ~Truthy(url) THEN [done |-> TRUE, result |-> Null, map |-> map, checked |-> FALSE]
    ELSE IF url.s \in DOMAIN map
         THEN [done |-> TRUE, result |-> Str(map[url.s]), map |-> map, checked |-> FALSE]
    ELSE IF StartsWith(url.s, IMAGES)
         THEN [done |-> TRUE, result |-> url, map |-> map, checked |-> FALSE]
    ELSE LET filename == generateFilename(url.s, stableId) IN
         IF filename \in dsk
         THEN [done |-> TRUE, result |-> Str(PublicPath(filename)),
               map |-> (url.s :> PublicPath(filename)) @@ map, checked |-> TRUE]
         ELSE [done |-> FALSE, filename |-> filename, checked |-> TRUE]

\* What a download can come to: the file is written; the request fails (a
\* rejected fetch or a status that is not ok); the write raises with the file
\* already created
Outcomes == {"written", "failed", "writeFailed"}

\* downloadImage(url, filepath): whether it reports success, and the disk after it
downloadImage(outcome, filename, dsk) ==
    CASE outcome = "written" -> [success |-> TRUE, disk |-> dsk \cup {filename}]
      [] outcome = "failed" -> [success |-> FALSE, disk |-> dsk]
      [] outcome = "writeFailed" -> [success |-> FALSE, disk |-> dsk \cup {filename}]

\* cacheImageResume returning the path of the file instead of the public path
cacheImageResumeFilePath(url, filename, success, map) ==
    IF success
    THEN [result |-> Str(<<"p", "u", "b", "l", "i", "c">> \o PublicPath(filename)),
          map |-> (url.s :> PublicPath(filename)) @@ map]
    ELSE [result |-> Null, map |-> map]

\* cacheImageResume without the entry in the map
cacheImageResumeUnregistered(url, filename, success, map) ==
    [result |-> IF success THEN Str(PublicPath(filename)) ELSE Null, map |-> map]

\* cacheImageResume registering the path whatever the download came to
cacheImageResumeAlways(url, filename, success, map) ==
    [result |-> IF success THEN Str(PublicPath(filename)) ELSE Null,
     map |-> (url.s :> PublicPath(filename)) @@ map]

\* cacheImage after its await
cacheImageResume(url, filename, success, map) ==
    IF success
    THEN [result |-> Str(PublicPath(filename)), map |-> (url.s :> PublicPath(filename)) @@ map]
    ELSE [result |-> Null, map |-> map]

\* getStats(): both counts are the size of the map
getStats(map) == [total |-> Cardinality(DOMAIN map), cached |-> Cardinality(DOMAIN map)]

-----------------------------------------------------------------------------
(* The image cache as a state machine: callers call cacheImage; a call that
   has to download is suspended until its download has come to an end *)

Callers == {1, 2}

U1 == HTTPS \o <<"h", "/", "a", ".", "P", "N", "G", "?", "1">>
U2 == HTTPS \o <<"g", "/", "a", ".", "P", "N", "G", "?", "2">>      \* U1 after a rotation
LocalUrl == IMAGES \o <<"x", ".", "j", "p", "g">>
CacheUrls == {EmptyStr, Str(LocalUrl), Str(U1), Str(U2)}
StableIds == {Undefined, Str(<<"p", "1">>), Str(<<"p", "2">>)}

Idle == [pc |-> "idle"]

\* The record of a call that has returned. follows: what the call that returned
\* right before it did, when that call had the same URL and stable id
Completed(url, stableId, result, fetches, wrote, prior, follows) ==
    [url |-> url, stableId |-> stableId, result |-> result, fetches |-> fetches,
     wrote |-> wrote, prior |-> prior, follows |-> follows]

NoPredecessor == [same |-> FALSE]
Predecessor(url, stableId) ==
    IF lastCall # NotRun /\ lastCall.url = url /\ lastCall.stableId = stableId
    THEN [same |-> TRUE, result |-> lastCall.result, fetches |-> lastCall.fetches,
          wrote |-> lastCall.wrote]
    ELSE NoPredecessor

PriorPath(url) ==
    IF url.t = "string" /\ url.s \in DOMAIN firstPath THEN Str(firstPath[url.s]) ELSE Null

NoteFirstPath(url, result) ==
    IF result.t = "string" /\ url.s \notin DOMAIN firstPath
    THEN (url.s :> result.s) @@ firstPath
    ELSE firstPath

CInit ==
    /\ imageMap = <<>>
    /\ disk \in {{}, {generateFilename(U1, Str(<<"p", "1">>))}}   \* files kept from an earlier run
    /\ calls = [c \in Callers |-> Idle]
    /\ lastCall = NotRun
    /\ firstPath = <<>>
    /\ XIdle /\ LIdle /\ BIdle /\ TIdle /\ QIdle /\ NIdle

\* The callers whose call for url is suspended in its download
Downloading(url) == {d \in Callers : calls[d].pc = "fetching" /\ calls[d].url = url}

\* Caller c calls cacheImage(url, stableId): the call runs up to its first await.
\* overlapped marks the calls for one URL of which one started while the other
\* was suspended in its download
CacheImageCall(c, url, stableId) ==
    /\ calls[c] = Idle
    /\ LET r == cacheImageSync(url, stableId, imageMap, disk) IN
       IF r.done
       THEN /\ imageMap' = r.map
            /\ lastCall' = Completed(url, stableId, r.result, 0, FALSE, PriorPath(url),
                                     Predecessor(url, stableId))
                            @@ [checked |-> r.checked, overlapped |-> Downloading(url) # {}]
            /\ firstPath' = NoteFirstPath(url, r.result)
            /\ UNCHANGED calls
       ELSE /\ calls' = [d \in Callers |->
                            IF d = c
                            THEN [pc |-> "fetching", url |-> url, stableId |-> stableId,
                                  filename |-> r.filename, prior |-> PriorPath(url),
                                  follows |-> Predecessor(url, stableId),
                                  overlapped |-> Downloading(url) # {}]
                            ELSE IF d \in Downloading(url)
                            THEN [calls[d] EXCEPT !.overlapped = TRUE]
                            ELSE calls[d]]
            /\ UNCHANGED <<imageMap, lastCall, firstPath>>
    /\ UNCHANGED <<disk, xvars, lvars, bvars, tvars, qvars, nvars>>

\* The download of caller c's call comes to an end
Download(c, outcome) ==
    /\ calls[c].pc = "fetching"
    /\ LET d == downloadImage(outcome, calls[c].filename, disk) IN
       /\ disk' = d.disk
       /\ calls' = [calls EXCEPT ![c] = [@ EXCEPT !.pc = "fetched"] @@ [success |-> d.success]]
    /\ UNCHANGED <<imageMap, lastCall, firstPath, xvars, lvars, bvars, tvars, qvars, nvars>>

\* Caller c's call resumes after its await and returns
CacheImageReturn(c) ==
    /\ calls[c].pc = "fetched"
    /\ LET k == calls[c]
           r == cacheImageResume(k.url, k.filename, k.success, imageMap)
       IN  /\ imageMap' = r.map
           /\ lastCall' = Completed(k.url, k.stableId, r.result, 1, k.success, k.prior, k.follows)
                           @@ [checked |-> TRUE, overlapped |-> k.overlapped]
           /\ firstPath' = NoteFirstPath(k.url, r.result)
    /\ calls' = [calls EXCEPT ![c] = Idle]
    /\ UNCHANGED <<disk, xvars, lvars, bvars, tvars, qvars, nvars>>

\* Calls that do not overlap: a call starts when no other is under way
CNext ==
    \/ \E c \in Callers, url \in CacheUrls, stableId \in StableIds :
          /\ \A d \in Callers : calls[d] = Idle
          /\ CacheImageCall(c, url, stableId)
    \/ \E c \in Callers, outcome \in Outcomes : Download(c, outcome)
    \/ \E c \in Callers : CacheImageReturn(c)

SpecCache == CInit /\ [][CNext]_vars

\* Calls that may overlap: a call starts whatever the other caller is doing, as
\* the transforms that getAll runs in parallel call cacheImage
CNextOverlapping ==
    \/ \E c \in Callers, url \in {Str(U1), Str(U2)}, stableId \in StableIds \ {Undefined} :
          CacheImageCall(c, url, stableId)
    \/ \E c \in Callers, outcome \in Outcomes : Download(c, outcome)
    \/ \E c \in Callers : CacheImageReturn(c)

SpecCacheOverlapping == CInit /\ [][CNextOverlapping]_vars

IsRemote(url) == Truthy(url) /\ ~StartsWith(url.s, IMAGES)

C2_PathIsStable ==
    (lastCall # NotRun /\ lastCall.prior # Null) =>
        lastCall.result = lastCall.prior /\ lastCall.fetches = 0

\* the path was fixed under stable id p1, the later call passes p2
C2_Witness ==
    /\ lastCall # NotRun /\ lastCall.url = Str(U1) /\ lastCall.stableId = Str(<<"p", "2">>)
    /\ lastCall.prior = Str(PublicPath(<<"p", "1", ".", "p", "n", "g">>))
    /\ lastCall.result = lastCall.prior

\* A step in which a cacheImage call for an empty URL or a local path ran from
\* its beginning to its end
ShortCircuitCall ==
    /\ \A c \in Callers : calls[c] = Idle /\ calls'[c] = Idle
    /\ lastCall' # NotRun
    /\ ~IsRemote(lastCall'.url)

(* C14 as stated: cacheImage(u) for an empty u or a local path returns u,
   without a look at the disk, a download or a change of the URL map. *)
C14_ShortCircuitReturnsInput ==
    [][ShortCircuitCall =>
          /\ lastCall'.result = lastCall'.url
          /\ ~lastCall'.checked /\ lastCall'.fetches = 0
          /\ imageMap' = imageMap /\ disk' = disk]_vars

(* C14 amended: cacheImage(u) returns null for an empty u and u itself for a
   local path, in both cases without a look at the disk, a download or a
   change of the URL map. *)
C14_ShortCircuit ==
    [][ShortCircuitCall =>
          /\ lastCall'.result = IF Truthy(lastCall'.url) THEN lastCall'.url ELSE Null
          /\ ~lastCall'.checked /\ lastCall'.fetches = 0
          /\ imageMap' = imageMap /\ disk' = disk]_vars

\* cacheImage("") has returned null on a cache that holds a file and an entry
C14_Witness ==
    /\ lastCall # NotRun /\ lastCall.url = EmptyStr /\ lastCall.result = Null
    /\ ~lastCall.checked /\ lastCall.fetches = 0
    /\ imageMap # <<>> /\ disk # {}

-----------------------------------------------------------------------------
(* Pagination in the loader (lib/notion-loader.ts) *)

MaxResultPages == 3     \* most result pages the remote serves for one resource
MaxPageSize == 3        \* most records in one result page

\* The cursor the remote hands out for its k-th result page
Token(k) == Str(<<"c">> \o NatToStr(k))

\* The remote's answer to a request with start_cursor = cursor, over the result
\* pages it holds for the resource
RemoteResponse(resultPages, cursor) ==
    LET k == IF cursor = Undefined THEN 1
             ELSE CHOOSE j \in 1..Len(resultPages) : Token(j) = cursor
    IN  [results |-> resultPages[k],
         next_cursor |-> IF k < Len(resultPages) THEN Token(k + 1) ELSE Null]

\* PageStep keeping only the results of the last response
PageStepOverwrite(acc, response) ==
    [acc |-> response.results, cursor |-> Or(response.next_cursor, Undefined)]

\* PageStep leaving the loop after the first response
PageStepOnce(acc, response) ==
    [acc |-> acc \o response.results, cursor |-> Undefined]

\* The body of the do-while loops: push the results, take the next cursor
PageStep(acc, response) ==
    [acc |-> acc \o response.results, cursor |-> Or(response.next_cursor, Undefined)]

\* The k-th record the remote holds for a resource; as a block, every other one
\* is flagged as having children
Record(k) == Obj([id |-> Str(<<"r">> \o NatToStr(k)), has_children |-> Bool(k % 2 = 1)])

DatabaseId == Str(<<"d", "b">>)     \* this.databaseId
PageId == Str(<<"p", "1">>)         \* the page fetchPageBlocks is called for

\* The block_id of a request that goes for the children of the latest block
\* flagged as having some
BlockIdOfParent(pageId, acc) ==
    LET flagged == {i \in 1..Len(acc) : Truthy(Get(acc[i], "has_children"))} IN
    IF flagged = {} THEN pageId
    ELSE Get(acc[CHOOSE i \in flagged : \A j \in flagged : j <= i], "id")

\* The block_id of the requests of fetchPageBlocks, whatever blocks it has so far
BlockIdAsked(pageId, acc) == pageId

\* The id the next request of a loop names
IdAsked(op, acc) == IF op = "fetchPageBlocks" THEN BlockIdAsked(PageId, acc) ELSE DatabaseId

\* Result pages of the given sizes, the records numbered through
RECURSIVE ResultPages(_, _)
ResultPages(sizes, from) ==
    IF sizes = <<>> THEN <<>>
    ELSE <<[i \in 1..Head(sizes) |-> Record(from + i - 1)]>>
         \o ResultPages(Tail(sizes), from + Head(sizes))

Served ==
    {ResultPages(sizes, 1) : sizes \in UNION {[1..n -> 0..MaxPageSize] : n \in 1..MaxResultPages}}

LInit ==
    /\ \E served \in Served :
          \/ remote = [database |-> served, blocks |-> ResultPages(<<1>>, 1)]
          \/ remote = [database |-> ResultPages(<<1>>, 1), blocks |-> served]
    /\ pageCache = Null
    /\ fetch = Idle
    /\ fetched = NotRun
    /\ XIdle /\ CIdle /\ BIdle /\ TIdle /\ QIdle /\ NIdle

\* fetchAllPages() is called: the cached list is returned, or the loop starts
FetchAllPagesCall ==
    /\ fetch = Idle
    /\ IF Truthy(pageCache)
       THEN fetched' = [op |-> "fetchAllPages", value |-> pageCache, requests |-> 0,
                        sent |-> <<>>, got |-> <<>>, asked |-> <<>>]
            /\ UNCHANGED fetch
       ELSE fetch' = [pc |-> "requesting", op |-> "fetchAllPages", resource |-> "database",
                      cursor |-> Undefined, acc |-> <<>>, requests |-> 0,
                      sent |-> <<Undefined>>, got |-> <<>>,
                      asked |-> <<IdAsked("fetchAllPages", <<>>)>>]
            /\ UNCHANGED fetched
    /\ UNCHANGED <<remote, pageCache, xvars, cvars, bvars, tvars, qvars, nvars>>

\* fetchPageBlocks(pageId) is called
FetchPageBlocksCall ==
    /\ fetch = Idle
    /\ fetch' = [pc |-> "requesting", op |-> "fetchPageBlocks", resource |-> "blocks",
                 cursor |-> Undefined, acc |-> <<>>, requests |-> 0,
                 sent |-> <<Undefined>>, got |-> <<>>,
                 asked |-> <<IdAsked("fetchPageBlocks", <<>>)>>]
    /\ UNCHANGED <<remote, pageCache, fetched, xvars, cvars, bvars, tvars, qvars, nvars>>

\* The awaited request of the loop is answered: one turn of the do-while, which
\* sends the next request with the cursor it took or leaves the loop. sent and
\* got log the start_cursor of every request and the next_cursor of every
\* response, asked the database or block id every request names
Response ==
    /\ fetch # Idle
    /\ LET response == RemoteResponse(remote[fetch.resource], fetch.cursor)
           step == PageStep(fetch.acc, response) IN
       IF Truthy(step.cursor)
       THEN /\ fetch' = [fetch EXCEPT !.acc = step.acc, !.cursor = step.cursor,
                                      !.requests = @ + 1,
                                      !.sent = Append(@, step.cursor),
                                      !.asked = Append(@, IdAsked(fetch.op, step.acc)),
                                      !.got = Append(@, response.next_cursor)]
            /\ UNCHANGED <<pageCache, fetched>>
       ELSE /\ fetch' = Idle
            /\ fetched' = [op |-> fetch.op, value |-> Arr(step.acc),
                           requests |-> fetch.requests + 1, sent |-> fetch.sent,
                           got |-> Append(fetch.got, response.next_cursor),
                           asked |-> fetch.asked]
            /\ pageCache' = IF fetch.op = "fetchAllPages" THEN Arr(step.acc) ELSE pageCache
    /\ UNCHANGED <<remote, xvars, cvars, bvars, tvars, qvars, nvars>>

\* The awaited request is rejected: the error leaves the loop and the call
RequestFails ==
    /\ fetch # Idle
    /\ fetch' = Idle
    /\ fetched' = [op |-> fetch.op, value |-> Throw, requests |-> fetch.requests + 1,
                   sent |-> fetch.sent, got |-> fetch.got, asked |-> fetch.asked]
    /\ UNCHANGED <<remote, pageCache, xvars, cvars, bvars, tvars, qvars, nvars>>

LNext == FetchAllPagesCall \/ FetchPageBlocksCall \/ Response \/ RequestFails

SpecPaging == LInit /\ [][LNext]_vars

\* The request a loop awaits is settled in the end, answered or rejected
SpecPagingFair == SpecPaging /\ WF_vars(Response \/ RequestFails)

RECURSIVE Flatten(_)
Flatten(pages) == IF pages = <<>> THEN <<>> ELSE Head(pages) \o Flatten(Tail(pages))

ResourceOf(op) == IF op = "fetchAllPages" THEN "database" ELSE "blocks"

(* C3: whatever result pages the remote serves, fetchAllPages and
   fetchPageBlocks return the concatenation of all of them: every record
   once, in the original order. *)
C3_PaginationComplete ==
    (fetched # NotRun /\ fetched.value # Throw) =>
        /\ fetched.value = Arr(Flatten(remote[ResourceOf(fetched.op)]))
        /\ \A k \in 1..Len(fetched.value.a) : fetched.value.a[k] = Record(k)

\* result pages of sizes 3, 3, 1 give the 7 records
C3_Witness ==
    /\ fetched # NotRun /\ fetched.op = "fetchPageBlocks" /\ fetched.value # Throw
    /\ Len(remote.blocks) = 3
    /\ Len(remote.blocks[1]) = 3 /\ Len(remote.blocks[2]) = 3 /\ Len(remote.blocks[3]) = 1
    /\ Len(fetched.value.a) = 7 /\ fetched.requests = 3

-----------------------------------------------------------------------------
(* The backup writer (lib/backup-system.ts): saveIndividualContent *)

MaxItems == 3           \* most content items in one backup run

JSON == <<".", "j", "s", "o", "n">>
ContentTypes == <<ARTICLE, COMIC, PODCAST>>      \* the keys of byType, in their order

\* content.filter(c => c.contentType === type)
RECURSIVE OfType(_, _)
OfType(items, type) ==
    IF items = <<>> THEN <<>>
    ELSE (IF Get(Head(items), "contentType") = Str(type) THEN <<Head(items)>> ELSE <<>>)
         \o OfType(Tail(items), type)

SlugKey(type, slug) == type \o <<":">> \o slug

\* The file name an item is given, and the slug counts after it
NameItem(type, slug, slugCounts) ==
    LET slugKey == SlugKey(type, slug) IN
    IF slugKey \in DOMAIN slugCounts /\ slugCounts[slugKey] # 0
    THEN [filename |-> slug \o <<"-">> \o NatToStr(slugCounts[slugKey] + 1) \o JSON,
          slugCounts |-> [slugCounts EXCEPT ![slugKey] = @ + 1]]
    ELSE [filename |-> slug \o JSON,
          slugCounts |-> (slugKey :> 1) @@ slugCounts]

\* path.join(typeDir, filename), relative to the backup directory
FilePath(type, filename) == type \o <<"s", "/">> \o filename

Slugs == {<<"e", "p", "1">>, <<"e", "p", "1", "-", "2">>, <<>>}

Item(i, type, slug) ==
    Obj([id |-> Str(NatToStr(i)), contentType |-> Str(type), slug |-> Str(slug)])

ContentLists ==
    UNION {{[i \in 1..n |-> Item(i, ts[i][1], ts[i][2])] :
                ts \in [1..n -> {ARTICLE, COMIC, PODCAST} \X Slugs]} : n \in 0..MaxItems}

BInit ==
    /\ content \in ContentLists
    /\ save = Idle
    /\ files = <<>>
    /\ XIdle /\ CIdle /\ LIdle /\ TIdle /\ QIdle /\ NIdle

\* saveIndividualContent(content) is called: the content is grouped by type
SaveIndividualContentCall ==
    /\ save = Idle
    /\ save' = [pc |-> "saving", type |-> 1, item |-> 1, slugCounts |-> <<>>,
                filepaths |-> <<>>,
                byType |-> [t \in 1..Len(ContentTypes) |-> OfType(content, ContentTypes[t])]]
    /\ UNCHANGED <<content, files, xvars, cvars, lvars, tvars, qvars, nvars>>

\* One turn of the inner loop: the next item of the type is written
WriteItem ==
    /\ save # Idle /\ save.pc = "saving"
    /\ save.type <= Len(ContentTypes) /\ save.item <= Len(save.byType[save.type])
    /\ LET type == ContentTypes[save.type]
           item == save.byType[save.type][save.item]
           named == NameItem(type, Get(item, "slug").s, save.slugCounts)
           filepath == FilePath(type, named.filename)
       IN  /\ files' = (filepath :> item) @@ files
           /\ save' = [save EXCEPT !.item = @ + 1, !.slugCounts = named.slugCounts,
                                   !.filepaths = Append(@, filepath)]
    /\ UNCHANGED <<content, xvars, cvars, lvars, tvars, qvars, nvars>>

\* The items of the type are through: on to the next type
NextType ==
    /\ save # Idle /\ save.pc = "saving"
    /\ save.type <= Len(ContentTypes) /\ save.item > Len(save.byType[save.type])
    /\ save' = [save EXCEPT !.type = @ + 1, !.item = 1]
    /\ UNCHANGED <<content, files, xvars, cvars, lvars, tvars, qvars, nvars>>

\* All types are through: the paths written are returned
SaveReturns ==
    /\ save # Idle /\ save.pc = "saving"
    /\ save.type > Len(ContentTypes)
    /\ save' = [save EXCEPT !.pc = "returned"]
    /\ UNCHANGED <<content, files, xvars, cvars, lvars, tvars, qvars, nvars>>

BNext == SaveIndividualContentCall \/ WriteItem \/ NextType \/ SaveReturns

SpecBackup == BInit /\ [][BNext]_vars

\* How many of the items before position i have the type and slug of item i
EarlierSame(i) ==
    Cardinality({j \in 1..(i - 1) :
                    /\ content[j].o.contentType = content[i].o.contentType
                    /\ content[j].o.slug = content[i].o.slug})

\* The path the claim gives item i: s.json for the first item with slug s of its
\* type, s-k.json for the k-th
ClaimedPath(i) ==
    LET slug == content[i].o.slug.s
        k == EarlierSame(i) + 1
    IN  FilePath(content[i].o.contentType.s,
                 IF k = 1 THEN slug \o JSON ELSE slug \o <<"-">> \o NatToStr(k) \o JSON)

(* C8: saveIndividualContent writes one file per item, the first item with
   slug s of a type to s.json and the k-th to s-k.json, and no two items of
   the run are written to the same path: afterwards every item's file holds
   that item. *)
C8_NoOverwrite ==
    (save # Idle /\ save.pc = "returned") =>
        /\ Len(save.filepaths) = Len(content)
        /\ \A i \in 1..Len(content) :
              ClaimedPath(i) \in DOMAIN files /\ files[ClaimedPath(i)] = content[i]
        /\ \A i, j \in 1..Len(save.filepaths) : i # j => save.filepaths[i] # save.filepaths[j]

-----------------------------------------------------------------------------
(* transformPage (lib/notion-loader.ts) with the image cache behind it. The
   cache calls of one transformPage run one after the other, each a step of
   its own; a log keeps the cacheImage calls made *)

MaxPageBlocks == 2      \* longest block list of a page handed to transformPage

\* cacheImage(url, stableId) run to its end, its download (if it comes to one)
\* ending as `outcome` says
cacheImage(url, stableId, map, dsk, outcome) ==
    LET After(r) ==
            IF r.done
            THEN [result |-> r.result, outcome |-> "none", map |-> r.map, disk |-> dsk]
            ELSE LET d == downloadImage(outcome, r.filename, dsk)
                     e == cacheImageResume(url, r.filename, d.success, map)
                 IN  [result |-> e.result, outcome |-> outcome, map |-> e.map, disk |-> d.disk]
    IN  After(cacheImageSync(url, stableId, map, dsk))

\* The entry of the log for a call made for a place in the content (the hero
\* image, panel i, the block at a path)
Logged(kind, path, url, call) ==
    [kind |-> kind, path |-> path, url |-> url, result |-> call.result,
     outcome |-> call.outcome, mapped |-> url.s \in DOMAIN call.map]

\* cacheHero assigning the result of the cache as it is
cacheHeroDropOriginal(doc, cachedUrl) ==
    Obj([doc.o EXCEPT !.heroImage = cachedUrl])

\* content.heroImage = cachedUrl || content.heroImage
cacheHero(doc, cachedUrl) ==
    Obj([doc.o EXCEPT !.heroImage = Or(cachedUrl, @)])

\* `${page.id}-audio-${i}` and `${page.id}-panel-${panel.panelNumber || i}`
EntryStableId(kind, pageId, entry, i) ==
    Str(ToStr(pageId) \o <<"-">>
        \o (IF kind = "audio" THEN AUDIO \o <<"-">> \o NatToStr(i)
            ELSE <<"p", "a", "n", "e", "l", "-">>
                 \o ToStr(Or(Get(entry, "panelNumber"), Num(i)))))

\* if (cachedUrl) file.url = cachedUrl;  if (cachedUrl) panel.imageUrl = cachedUrl
cacheEntry(entry, urlKey, cachedUrl) ==
    IF Truthy(cachedUrl) THEN Obj((urlKey :> cachedUrl) @@ entry.o) ELSE entry

MediaTypes == {IMAGE, AUDIO, VIDEO, FILE}

\* block[block.type]
Payload(block) == Get(block, TypeKey(Get(block, "type").s))

\* media?.file?.url || media?.external?.url, for a block of a media type
MediaUrl(block) ==
    IF Get(block, "type").s \in MediaTypes
    THEN Or(OptGet(OptGet(Payload(block), "file"), "url"),
            OptGet(OptGet(Payload(block), "external"), "url"))
    ELSE Undefined

\* updatedBlock after the media part of the loop body of cacheBlockImages
cacheMedia(block, cachedUrl) ==
    IF Truthy(MediaUrl(block)) /\ Truthy(cachedUrl)
    THEN Obj((TypeKey(Get(block, "type").s) :>
                 Obj(Spread(Payload(block).o, [type |-> Str(FILE),
                                               file |-> Obj([url |-> cachedUrl])])))
             @@ block.o)
    ELSE block

\* block.has_children && block[block.type]?.children
HasNested(block) ==
    Truthy(Get(block, "has_children")) /\ Truthy(OptGet(Payload(block), "children"))

\* withChildren without the spread of the payload
withChildrenOnly(block, updatedBlock, children) ==
    Obj((TypeKey(Get(block, "type").s) :> Obj([children |-> Arr(children)]))
        @@ updatedBlock.o)

\* updatedBlock[block.type] = {...block[block.type], children: ...}
withChildren(block, updatedBlock, children) ==
    Obj((TypeKey(Get(block, "type").s) :>
            Obj(Spread(Payload(block).o, [children |-> Arr(children)])))
        @@ updatedBlock.o)

\* `${page.id}-${page.last_edited_time}`
CacheKey(page) == ToStr(Get(page, "id")) \o <<"-">> \o ToStr(Get(page, "last_edited_time"))

\* The pages: every content type, with a remote hero image, a local one or none
CachedPages ==
    {PageOf(WithProp(WithProp(GoodProps, "Content Type", SelectProp(ct)), "Hero Image", hero)) :
        ct \in {ARTICLE, COMIC, PODCAST},
        hero \in {FilesProp(<<HostedFile(U1)>>), FilesProp(<<>>)}}
    \cup {PageOf(WithProp(GoodProps, "Hero Image", FilesProp(<<ExternalFile(LocalUrl)>>)))}

Img1 ==
    Block(<<"b", "1">>, IMAGE, Obj([type |-> Str(FILE), file |-> Obj([url |-> Str(U1)]),
                                    caption |-> Arr(<<>>)]))
Img2 ==
    Block(<<"b", "2">>, IMAGE, Obj([type |-> Str(EXTERNAL), external |-> Obj([url |-> Str(U2)]),
                                    caption |-> Arr(<<>>)]))
Audio2 ==
    Block(<<"b", "3">>, FILE, Obj([type |-> Str(FILE), file |-> Obj([url |-> Str(U2)])]))
\* a block that carries its children
Nest ==
    Obj([id |-> Str(<<"b", "4">>), type |-> Str(CALLOUT), has_children |-> Bool(TRUE),
         callout |-> Obj([rich_text |-> Arr(<<>>), children |-> Arr(<<Img1>>)])])
\* a block that carries children while its has_children flag is not set
NestUnflagged ==
    Obj([id |-> Str(<<"b", "5">>), type |-> Str(CALLOUT), has_children |-> Bool(FALSE),
         callout |-> Obj([rich_text |-> Arr(<<>>), children |-> Arr(<<Img2>>)])])
\* a media block that carries children
MediaParent ==
    Obj([id |-> Str(<<"b", "6">>), type |-> Str(VIDEO), has_children |-> Bool(TRUE),
         video |-> Obj([type |-> Str(EXTERNAL), external |-> Obj([url |-> Str(U1)]),
                        children |-> Arr(<<Img2>>)])])
PageBlocks == {Img1, Img2, Audio2, Par(<<"n">>), Nest, NestUnflagged, MediaParent}

\* What the cache holds from earlier on: nothing, or the hero of page p1 on disk
TInit ==
    /\ tIn \in [page : CachedPages, blocks : ListsOver(PageBlocks, MaxPageBlocks),
                cacheImages : BOOLEAN]
    /\ contentCache = <<>>
    /\ tp = Idle
    /\ tOut = NotRun
    /\ imageMap = <<>>
    /\ disk \in {{}, {generateFilename(U1, Str(<<"p", "1">>))}}
    /\ calls = <<>> /\ lastCall = NotRun /\ firstPath = <<>>
    /\ XIdle /\ LIdle /\ BIdle /\ QIdle /\ NIdle

TReturn(result, hit, log) == [result |-> result, hit |-> hit, log |-> log]

\* What is noted with a returned content: by, whether the loader that returned
\* it was constructed with cacheImages; through, whether the transformPage call
\* that built it ran the image cache over it
Noted(by, through) == [by |-> by, through |-> through]

\* transformPage(page) is called and runs up to its first cache call; blocks
\* is what fetchPageBlocks(page.id) resolved to
TransformPageCall ==
    /\ tp = Idle
    /\ \E key \in {CacheKey(tIn.page)},
          transformed \in {transformNotionPageToContent(tIn.page, tIn.blocks)} :
           IF key \in DOMAIN contentCache
           THEN /\ tOut' = TReturn(contentCache[key], TRUE, <<>>)
                            @@ Noted(tIn.cacheImages, tOut.through)
                /\ UNCHANGED <<tp, contentCache>>
           ELSE IF IsThrow(transformed)
           THEN /\ tOut' = TReturn(Throw, FALSE, <<>>) @@ Noted(tIn.cacheImages, FALSE)
                /\ UNCHANGED <<tp, contentCache>>
           ELSE IF ~tIn.cacheImages
           THEN /\ tOut' = TReturn(transformed, FALSE, <<>>) @@ Noted(FALSE, FALSE)
                /\ contentCache' = (key :> transformed) @@ contentCache
                /\ UNCHANGED tp
           ELSE /\ tp' = [pc |-> "hero", content |-> transformed, i |-> 0,
                          stack |-> <<>>, log |-> <<>>]
                /\ UNCHANGED <<tOut, contentCache>>
    /\ UNCHANGED <<tIn, cvars, xvars, lvars, bvars, qvars, nvars>>

\* 1. Hero image
HeroStep(outcome) ==
    /\ tp # Idle /\ tp.pc = "hero"
    /\ \E url \in {tp.content.o.heroImage} :
       \E call \in {cacheImage(url, Get(tIn.page, "id"), imageMap, disk, outcome)} :
           IF Truthy(url)
           THEN /\ tp' = [tp EXCEPT !.pc = "audio",
                                    !.content = cacheHero(@, call.result),
                                    !.log = Append(@, Logged("hero", <<>>, url, call))]
                /\ imageMap' = call.map
                /\ disk' = call.disk
           ELSE /\ tp' = [tp EXCEPT !.pc = "audio"]
                /\ UNCHANGED <<imageMap, disk>>
    /\ UNCHANGED <<tIn, contentCache, tOut, calls, lastCall, firstPath, xvars, lvars, bvars, qvars, nvars>>

\* One turn of the loop over content[listKey], or the way past it
EntryLoop(kind, listKey, urlKey, next, outcome) ==
    IF /\ tp.content.o.contentType = Str(IF kind = "audio" THEN PODCAST ELSE COMIC)
       /\ listKey \in DOMAIN tp.content.o
       /\ tp.i < Len(tp.content.o[listKey].a)
    THEN \E entry \in {tp.content.o[listKey].a[tp.i + 1]} :
         \E url \in {Get(entry, urlKey)} :
         \E call \in {cacheImage(url, EntryStableId(kind, Get(tIn.page, "id"), entry, tp.i),
                                 imageMap, disk, outcome)} :
             /\ tp' = [tp EXCEPT !.i = @ + 1,
                          !.content = Obj((listKey :>
                              Arr([tp.content.o[listKey].a EXCEPT
                                      ![tp.i + 1] = cacheEntry(entry, urlKey, call.result)]))
                              @@ @.o),
                          !.log = Append(@, Logged(kind, <<tp.i + 1>>, url, call))]
             /\ imageMap' = call.map
             /\ disk' = call.disk
    ELSE /\ tp' = [tp EXCEPT !.pc = next, !.i = 0,
                      !.stack = IF next = "blocks"
                                THEN <<[blocks |-> tp.content.o.blocks.a, i |-> 1,
                                        updatedBlocks |-> <<>>]>>
                                ELSE <<>>]
         /\ UNCHANGED <<imageMap, disk>>

\* 2. Podcast audio files
AudioStep(outcome) ==
    /\ tp # Idle /\ tp.pc = "audio"
    /\ EntryLoop("audio", "audioFiles", "url", "panels", outcome)
    /\ UNCHANGED <<tIn, contentCache, tOut, calls, lastCall, firstPath, xvars, lvars, bvars, qvars, nvars>>

\* 3. Comic panels
PanelStep(outcome) ==
    /\ tp # Idle /\ tp.pc = "panels"
    /\ EntryLoop("panel", "panels", "imageUrl", "blocks", outcome)
    /\ UNCHANGED <<tIn, contentCache, tOut, calls, lastCall, firstPath, xvars, lvars, bvars, qvars, nvars>>

\* The path to block i of the list the innermost cacheBlockImages call works on
PathTo(stack) == [k \in 1..Len(stack) |-> stack[k].i]

\* 4. cacheBlockImages: one turn of the loop of the innermost call. A block
\* with children suspends the turn until the call for the children is through
BlockStep(outcome) ==
    /\ tp # Idle /\ tp.pc = "blocks"
    /\ LET n == Len(tp.stack)
           top == tp.stack[n]
       IN  /\ top.i <= Len(top.blocks)
           /\ \E block \in {top.blocks[top.i]} :
              \E url \in {MediaUrl(block)} :
              \E call \in {cacheImage(url, Get(block, "id"), imageMap, disk, outcome)} :
              LET updatedBlock == IF Truthy(url) THEN cacheMedia(block, call.result) ELSE block
                  log == IF Truthy(url)
                         THEN Append(tp.log, Logged("block", PathTo(tp.stack), url, call))
                         ELSE tp.log
              IN  /\ tp' = [tp EXCEPT
                       !.log = log,
                       !.stack =
                          IF HasNested(block)
                          THEN Append([@ EXCEPT ![n] = top @@ [updatedBlock |-> updatedBlock]],
                                      [blocks |-> Get(Payload(block), "children").a, i |-> 1,
                                       updatedBlocks |-> <<>>])
                          ELSE [@ EXCEPT ![n] =
                                   [blocks |-> top.blocks, i |-> top.i + 1,
                                    updatedBlocks |-> Append(top.updatedBlocks, updatedBlock)]]]
                  /\ IF Truthy(url)
                     THEN imageMap' = call.map /\ disk' = call.disk
                     ELSE UNCHANGED <<imageMap, disk>>
    /\ UNCHANGED <<tIn, contentCache, tOut, calls, lastCall, firstPath, xvars, lvars, bvars, qvars, nvars>>

\* A cacheBlockImages call for the children of a block returns
ChildrenReturn ==
    /\ tp # Idle /\ tp.pc = "blocks"
    /\ LET n == Len(tp.stack)
           top == tp.stack[n]
       IN  /\ n > 1 /\ top.i > Len(top.blocks)
           /\ LET up == tp.stack[n - 1]
                  updatedBlock == withChildren(up.blocks[up.i], up.updatedBlock,
                                               top.updatedBlocks)
              IN  tp' = [tp EXCEPT !.stack =
                            Append(SubSeq(@, 1, n - 2),
                                   [blocks |-> up.blocks, i |-> up.i + 1,
                                    updatedBlocks |-> Append(up.updatedBlocks, updatedBlock)])]
    /\ UNCHANGED <<tIn, contentCache, tOut, cvars, xvars, lvars, bvars, qvars, nvars>>

\* The outermost cacheBlockImages call returns, and transformPage with it
TransformPageReturn ==
    /\ tp # Idle /\ tp.pc = "blocks"
    /\ Len(tp.stack) = 1 /\ tp.stack[1].i > Len(tp.stack[1].blocks)
    /\ LET result == Obj([tp.content.o EXCEPT !.blocks = Arr(tp.stack[1].updatedBlocks)]) IN
       /\ contentCache' = (CacheKey(tIn.page) :> result) @@ contentCache
       /\ tOut' = TReturn(result, FALSE, tp.log) @@ Noted(TRUE, TRUE)
    /\ tp' = Idle
    /\ UNCHANGED <<tIn, cvars, xvars, lvars, bvars, qvars, nvars>>

TNext ==
    \/ TransformPageCall
    \/ \E outcome \in Outcomes : HeroStep(outcome)
    \/ \E outcome \in Outcomes : AudioStep(outcome)
    \/ \E outcome \in Outcomes : PanelStep(outcome)
    \/ \E outcome \in Outcomes : BlockStep(outcome)
    \/ ChildrenReturn
    \/ TransformPageReturn

SpecTransformPage == TInit /\ [][TNext]_vars

\* The next call comes from a loader constructed with the other cacheImages
\* option: contentCache is static, shared by all loaders of the process
OtherLoader ==
    /\ tp = Idle
    /\ tIn' = [tIn EXCEPT !.cacheImages = ~@]
    /\ UNCHANGED <<contentCache, tp, tOut, cvars, xvars, lvars, bvars, qvars, nvars>>

SpecLoaders == TInit /\ [][TNext \/ OtherLoader]_vars

\* The content before the cache has touched it
Transformed == transformNotionPageToContent(tIn.page, tIn.blocks)

RECURSIVE BlockAt(_, _)
BlockAt(blocks, path) ==
    IF Len(path) = 1 THEN blocks[Head(path)]
    ELSE BlockAt(blocks[Head(path)].o[TypeKey(blocks[Head(path)].o.type.s)].o.children.a,
                 Tail(path))

Failed(e) == e.outcome \in {"failed", "writeFailed"}

\* The URL the content carries at the place a cache call was made for
UrlAt(c, e) ==
    CASE e.kind = "hero" -> c.o.heroImage
      [] e.kind = "panel" -> c.o.panels.a[e.path[1]].o.imageUrl
      [] e.kind = "audio" -> c.o.audioFiles.a[e.path[1]].o.url
      [] e.kind = "block" ->
            MediaUrl(BlockAt(c.o.blocks.a, e.path))

(* C10: a failed download is never fatal: the cacheImage call returns null
   and adds no map entry, and transformPage returns the content with the
   original URL still in the hero image, panel or block the download was
   for. *)
C10_FailedDownloadNotFatal ==
    (tOut # NotRun /\ ~tOut.hit) =>
        \A k \in 1..Len(tOut.log) :
            Failed(tOut.log[k]) =>
                /\ tOut.log[k].result = Null
                /\ ~tOut.log[k].mapped
                /\ ~IsThrow(tOut.result)
                /\ UrlAt(tOut.result, tOut.log[k]) = tOut.log[k].url
                /\ UrlAt(Transformed, tOut.log[k]) = tOut.log[k].url

\* the downloads for the hero image, a panel and a block of one page all failed
C10_Witness ==
    /\ tOut # NotRun /\ ~tOut.hit /\ ~IsThrow(tOut.result)
    /\ \A kind \in {"hero", "panel", "block"} :
          \E k \in 1..Len(tOut.log) : tOut.log[k].kind = kind /\ Failed(tOut.log[k])
    /\ \E k \in 1..Len(tOut.log) : tOut.log[k].outcome = "written"
    /\ tOut.result.o.heroImage = Str(U1)

\* A transformPage call with the cache enabled has returned content it built
\* itself, every download it came to having succeeded
CachedAllWritten ==
    /\ tOut # NotRun /\ ~tOut.hit /\ ~IsThrow(tOut.result) /\ tIn.cacheImages
    /\ \A k \in 1..Len(tOut.log) : ~Failed(tOut.log[k])

\* The children declared under the payload of a block
DeclaredChildren(block) ==
    IF Truthy(OptGet(Payload(block), "children"))
    THEN Get(Payload(block), "children").a ELSE <<>>

\* Whether a block, or a block declared under it at any depth, is a media
\* block with a remote URL
RECURSIVE HoldsRemote(_)
HoldsRemote(block) ==
    \/ IsRemote(MediaUrl(block))
    \/ \E i \in 1..Len(DeclaredChildren(block)) : HoldsRemote(DeclaredChildren(block)[i])

(* C15: cacheBlockImages descends into the children declared under a block
   whether or not has_children is set: with every download succeeding, no
   media block under a parent whose flag is not set keeps a remote URL. *)
C15_DescendsWithoutFlag ==
    CachedAllWritten =>
        \A i \in 1..Len(tOut.result.o.blocks.a) :
            LET block == tOut.result.o.blocks.a[i] IN
            ~Truthy(Get(block, "has_children")) =>
                \A j \in 1..Len(DeclaredChildren(block)) :
                    ~HoldsRemote(DeclaredChildren(block)[j])

(* C16: after cacheBlockImages with every download succeeding, every media
   block the walk came to with a URL, at any depth and with or without
   children of its own, yields the path cacheImage returned for it. *)
C16_MediaBlocksRewritten ==
    CachedAllWritten =>
        \A k \in 1..Len(tOut.log) :
            tOut.log[k].kind = "block" =>
                UrlAt(tOut.result, tOut.log[k]) = tOut.log[k].result

\* The URLs of the top-level media blocks of a content
TopLevelMediaUrls(c) ==
    {MediaUrl(c.o.blocks.a[i]) : i \in {j \in 1..Len(c.o.blocks.a) :
                                          Get(c.o.blocks.a[j], "type").s \in MediaTypes}}

(* C17: with the cache enabled and every download succeeding, the content
   transformPage returns holds no remote URL in its hero image, its panels'
   imageUrl, its audioFile.url or its top-level media blocks. *)
C17_NoRemoteUrlLeft ==
    CachedAllWritten =>
        LET c == tOut.result IN
        /\ ~IsRemote(c.o.heroImage)
        /\ "panels" \in DOMAIN c.o =>
              \A i \in 1..Len(c.o.panels.a) : ~IsRemote(Get(c.o.panels.a[i], "imageUrl"))
        /\ "audioFile" \in DOMAIN c.o => ~IsRemote(Get(c.o.audioFile, "url"))
        /\ \A url \in TopLevelMediaUrls(c) : ~IsRemote(url)

-----------------------------------------------------------------------------
(* The queries of the loader (lib/notion-loader.ts): getAll, getBySlug and
   getByProject, one query at a time. A query lists the pages (fetchAllPages),
   picks the pages it needs and transforms them side by side (transformPage,
   here without the image cache), each transform waiting for its own
   block-children requests *)

MaxDbPages == 2         \* most pages the database lists

\* slugProperty?.rich_text?.map(item => item.plain_text || '').join('')
RawSlug(p) == OptPlainTextJoin(OptGet(Get(Get(p, "properties"), "Slug"), "rich_text"))

\* getBySlug comparing the slugs without regard to letter case
SlugMatchesAnyCase(p, slug) ==
    RawSlug(p).t = "string" /\ LowerCase(RawSlug(p).s) = LowerCase(slug.s)

\* pageSlug === slug
SlugMatches(p, slug) == RawSlug(p) = slug

\* pages.find(...): the index of the first page that matches, 0 without one
RECURSIVE FindBySlug(_, _, _)
FindBySlug(pages, slug, i) ==
    IF i > Len(pages) THEN 0
    ELSE IF SlugMatches(pages[i], slug) THEN i
    ELSE FindBySlug(pages, slug, i + 1)

RECURSIVE DropSpaces(_)
DropSpaces(s) == IF s # <<>> /\ IsSpace(Head(s)) THEN DropSpaces(Tail(s)) ELSE s

\* s.replace(/\s+/g, '-')
RECURSIVE ReplaceSpaces(_)
ReplaceSpaces(s) ==
    IF s = <<>> THEN <<>>
    ELSE IF IsSpace(Head(s)) THEN <<"-">> \o ReplaceSpaces(DropSpaces(Tail(s)))
    ELSE <<Head(s)>> \o ReplaceSpaces(Tail(s))

\* NormalizeProject leaving the letter case of the tag as it is
NormalizeProjectKeepCase(name) == ReplaceSpaces(name)

\* item.name.toLowerCase().replace(/\s+/g, '-')
NormalizeProject(name) == ReplaceSpaces(LowerCase(name))

\* The filter callback of getByProject
ProjectMatches(p, projectSlug) ==
    LET tags == OptGet(Get(Get(p, "properties"), "Project"), "multi_select") IN
    /\ Truthy(tags)
    /\ \E i \in 1..Len(tags.a) :
          NormalizeProject(Get(tags.a[i], "name").s) = LowerCase(projectSlug.s)

\* The filter callback of getByCategory
CategoryMatches(p, category) ==
    LET name == OptGet(OptGet(Get(Get(p, "properties"), "Web Category"), "select"), "name")
        pageCategory == Or(name, EmptyStr)
    IN  LowerCase(pageCategory.s) = LowerCase(category.s)

\* The pages a query goes on to transform
Needed(op, arg, pages) ==
    CASE op = "getAll" -> pages
      [] op = "getBySlug" ->
            IF FindBySlug(pages, arg, 1) = 0 THEN <<>>
            ELSE <<pages[FindBySlug(pages, arg, 1)]>>
      [] op = "getByProject" -> SelectSeq(pages, LAMBDA p : ProjectMatches(p, arg))
      [] op = "getByCategory" -> SelectSeq(pages, LAMBDA p : CategoryMatches(p, arg))

\* Promise.all waiting for every transform and handing on what was fulfilled
PromiseAllSettled(tasks) ==
    IF \E i \in 1..Len(tasks) : tasks[i].pc = "blocks" THEN "pending" ELSE "fulfilled"

\* Promise.all(pages.map(page => this.transformPage(page))): rejected with the
\* first transform that rejects, fulfilled when all are
PromiseAll(tasks) ==
    IF \E i \in 1..Len(tasks) : tasks[i].pc = "failed" THEN "rejected"
    ELSE IF \E i \in 1..Len(tasks) : tasks[i].pc = "blocks" THEN "pending"
    ELSE "fulfilled"

\* The contents in the order in which their transforms came to an end, those
\* found in the cache first
FulfilledAsCompleted(tasks, order) ==
    LET cached == SelectSeq([i \in 1..Len(tasks) |-> i],
                            LAMBDA i : tasks[i].pc = "done" /\ \A k \in 1..Len(order) : order[k] # i)
        places == cached \o SelectSeq(order, LAMBDA i : tasks[i].pc = "done")
    IN  [k \in 1..Len(places) |-> tasks[places[k]].result]

\* The value of a fulfilled Promise.all: the contents at the places of their
\* promises, whenever each was fulfilled
Fulfilled(tasks, order) ==
    LET done == SelectSeq(tasks, LAMBDA task : task.pc = "done")
    IN  [i \in 1..Len(done) |-> done[i].result]

\* What the query returns once its transforms are through
Answer(op, arg, results) ==
    CASE op = "getAll" ->
            IF ~Truthy(arg) THEN Arr(results)
            ELSE Arr(SelectSeq(results, LAMBDA c : Get(c, "contentType") = arg))
      [] op = "getBySlug" -> IF results = <<>> THEN Null ELSE results[1]
      [] op \in {"getByProject", "getByCategory"} -> Arr(results)

\* transformPage without the look into contentCache
StartTransformUncached(page, cache) ==
    [page |-> page, pc |-> "blocks", cursor |-> Undefined, acc |-> <<>>, result |-> Undefined]

\* transformPage(page) up to its first await: the cached content, or the first
\* block-children request
StartTransform(page, cache) ==
    IF CacheKey(page) \in DOMAIN cache
    THEN [page |-> page, pc |-> "done", cursor |-> Undefined, acc |-> <<>>,
          result |-> cache[CacheKey(page)]]
    ELSE [page |-> page, pc |-> "blocks", cursor |-> Undefined, acc |-> <<>>,
          result |-> Undefined]

\* A page of the database
QPage(n, type, slug, project) ==
    Obj([id |-> Str(<<"p">> \o NatToStr(n)), last_edited_time |-> Str(<<"t", "1">>),
         properties |->
            Obj(WithProp(WithProp(WithProp(GoodProps, "Content Type", SelectProp(type)),
                                  "Slug", slug), "Project", project))])

QPages ==
    {QPage(1, COMIC, RichTextProp(<<Frag(<<"e", "p">>), Frag(<<"1">>)>>),
           MultiSelectProp(<<<<"L", "a", "b">>>>)),
     QPage(2, ARTICLE, RichTextProp(<<Frag(<<"E", "p", "1">>)>>),
           MultiSelectProp(<<<<"x">>, <<"M", "y", " ", " ", "L", "a", "b">>>>)),
     QPage(3, ARTICLE, RichTextProp(<<Frag(<<"e", "p", "1">>)>>), MultiSelectProp(<<>>)),
     QPage(4, PODCAST, Absent, Absent)}

\* The result pages of blocks the remote serves for a page
BlocksServed(page) ==
    CASE Get(page, "id") = Str(<<"p", "1">>) -> <<<<Par(<<"n">>)>>>>
      [] Get(page, "id") = Str(<<"p", "2">>) -> <<<<Par(<<"n">>)>>, <<Heading2>>>>
      [] Get(page, "id") = Str(<<"p", "4">>) -> <<<<FileBlock>>>>
      [] OTHER -> <<<<>>>>

\* lists of pages without repetition
Listings == {l \in ListsOver(QPages, MaxDbPages) : \A i, j \in 1..Len(l) : l[i] = l[j] => i = j}

\* The listing cut into result pages of n pages
RECURSIVE Chunks(_, _)
Chunks(l, n) ==
    IF Len(l) <= n THEN <<l>> ELSE <<SubSeq(l, 1, n)>> \o Chunks(SubSeq(l, n + 1, Len(l)), n)

QueryArgs ==
    ({"getAll"} \X {Undefined, Str(COMIC)})
    \cup ({"getBySlug"} \X {Str(<<"e", "p", "1">>), Str(<<"E", "p", "1">>), Str(<<"e", "p">>),
                            EmptyStr})
    \cup ({"getByProject"} \X {Str(<<"L", "a", "b">>), Str(<<"l", "a", "b">>),
                               Str(<<"M", "y", " ", " ", "L", "a", "b">>),
                               Str(<<"m", "y", "-", "l", "a", "b">>)})

QInit ==
    /\ \E l \in Listings, n \in 1..2 : db = Chunks(l, n)
    /\ pageCache = Null
    /\ contentCache = <<>>
    /\ query = Idle
    /\ qOut = NotRun
    /\ remote = <<>> /\ fetch = NotRun /\ fetched = NotRun
    /\ tIn = NotRun /\ tp = NotRun /\ tOut = NotRun
    /\ XIdle /\ CIdle /\ BIdle /\ NIdle

\* The query with the pages listed: the transforms of the pages it needs start
Listed(q, pages) ==
    LET tasks == [i \in 1..Len(Needed(q.op, q.arg, pages)) |->
                     StartTransform(Needed(q.op, q.arg, pages)[i], contentCache)]
    IN  [q EXCEPT !.pc = "transforming", !.tasks = tasks,
                  !.requested = {tasks[i].page : i \in {j \in 1..Len(tasks) : tasks[j].pc = "blocks"}}]

\* What a query came to
Outcome(q, value) ==
    [op |-> q.op, arg |-> q.arg, value |-> value, dbRequests |-> q.dbRequests,
     requested |-> q.requested, failed |-> q.failed, hadPages |-> q.hadPages,
     cachedAtCall |-> q.cachedAtCall, order |-> q.order]

\* getAll, getBySlug or getByProject is called: fetchAllPages returns the cached
\* list, or sends its first request
QueryCall(op, arg) ==
    /\ query = Idle
    /\ LET q == [op |-> op, arg |-> arg, pc |-> "listing", cursor |-> Undefined, acc |-> <<>>,
                 tasks |-> <<>>, dbRequests |-> 0, requested |-> {}, failed |-> FALSE,
                 hadPages |-> Truthy(pageCache), cachedAtCall |-> contentCache,
                 order |-> <<>>]
       IN  query' = IF Truthy(pageCache) THEN Listed(q, pageCache.a) ELSE q
    /\ UNCHANGED <<db, qOut, pageCache, contentCache, remote, fetch, fetched, tIn, tp, tOut,
                   xvars, cvars, bvars, nvars>>

\* The database query under way is answered: one turn of the loop of fetchAllPages
ListResponse ==
    /\ query # Idle /\ query.pc = "listing"
    /\ \E step \in {PageStep(query.acc, RemoteResponse(db, query.cursor))} :
          IF Truthy(step.cursor)
          THEN /\ query' = [query EXCEPT !.acc = step.acc, !.cursor = step.cursor,
                                         !.dbRequests = @ + 1]
               /\ UNCHANGED pageCache
          ELSE /\ pageCache' = Arr(step.acc)
               /\ query' = Listed([query EXCEPT !.acc = step.acc, !.dbRequests = @ + 1],
                                  step.acc)
    /\ UNCHANGED <<db, qOut, contentCache, remote, fetch, fetched, tIn, tp, tOut,
                   xvars, cvars, bvars, nvars>>

\* The database query under way is rejected: fetchAllPages and the query reject
ListFails ==
    /\ query # Idle /\ query.pc = "listing"
    /\ qOut' = Outcome([query EXCEPT !.dbRequests = @ + 1, !.failed = TRUE], Throw)
    /\ query' = Idle
    /\ UNCHANGED <<db, pageCache, contentCache, remote, fetch, fetched, tIn, tp, tOut,
                   xvars, cvars, bvars, nvars>>

\* The query with transform i at its end; the first transform to fail rejects
\* the Promise.all the query waits for. order logs the transforms as they end
Settle(q, i, task) ==
    LET settled == [q EXCEPT !.tasks[i] = task, !.failed = @ \/ task.pc = "failed",
                             !.order = Append(@, i)]
    IN  [settled EXCEPT !.pc = IF PromiseAll(settled.tasks) = "rejected"
                               THEN "rejected" ELSE @]

\* The block-children request of transform i is answered: one turn of the loop
\* of fetchPageBlocks and, after its last turn, the rest of transformPage
BlockResponse(i) ==
    /\ query # Idle /\ query.pc \in {"transforming", "rejected"}
    /\ i \in 1..Len(query.tasks) /\ query.tasks[i].pc = "blocks"
    /\ \E task \in {query.tasks[i]} :
       \E step \in {PageStep(task.acc, RemoteResponse(BlocksServed(task.page), task.cursor))} :
          IF Truthy(step.cursor)
          THEN /\ query' = [query EXCEPT !.tasks[i].acc = step.acc,
                                         !.tasks[i].cursor = step.cursor]
               /\ UNCHANGED <<contentCache, qOut>>
          ELSE \E transformed \in {transformNotionPageToContent(task.page, step.acc)} :
               IF IsThrow(transformed)
               THEN /\ query' = Settle(query, i, [task EXCEPT !.pc = "failed", !.result = Throw])
                    /\ qOut' = IF query.pc = "transforming" /\ query'.pc = "rejected"
                               THEN Outcome(query', Throw) ELSE qOut
                    /\ UNCHANGED contentCache
               ELSE /\ query' = Settle(query, i, [task EXCEPT !.pc = "done", !.acc = step.acc,
                                                              !.result = transformed])
                    /\ contentCache' = (CacheKey(task.page) :> transformed) @@ contentCache
                    /\ UNCHANGED qOut
    /\ UNCHANGED <<db, pageCache, remote, fetch, fetched, tIn, tp, tOut, xvars, cvars, bvars, nvars>>

\* The block-children request of transform i is rejected: the transform rejects
BlockFails(i) ==
    /\ query # Idle /\ query.pc \in {"transforming", "rejected"}
    /\ i \in 1..Len(query.tasks) /\ query.tasks[i].pc = "blocks"
    /\ query' = Settle(query, i, [query.tasks[i] EXCEPT !.pc = "failed", !.result = Throw])
    /\ qOut' = IF query.pc = "transforming" /\ query'.pc = "rejected"
               THEN Outcome(query', Throw) ELSE qOut
    /\ UNCHANGED <<db, pageCache, contentCache, remote, fetch, fetched, tIn, tp, tOut,
                   xvars, cvars, bvars, nvars>>

\* Every transform is through: the query returns
QueryReturn ==
    /\ query # Idle /\ query.pc = "transforming"
    /\ PromiseAll(query.tasks) = "fulfilled"
    /\ \E results \in {Fulfilled(query.tasks, query.order)} :
          qOut' = Outcome(query, Answer(query.op, query.arg, results))
    /\ query' = Idle
    /\ UNCHANGED <<db, pageCache, contentCache, remote, fetch, fetched, tIn, tp, tOut,
                   xvars, cvars, bvars, nvars>>

\* The transforms a rejected query left behind have come to their ends
LeftoversDone ==
    /\ query # Idle /\ query.pc = "rejected"
    /\ \A i \in 1..Len(query.tasks) : query.tasks[i].pc # "blocks"
    /\ query' = Idle
    /\ UNCHANGED <<db, qOut, pageCache, contentCache, remote, fetch, fetched, tIn, tp, tOut,
                   xvars, cvars, bvars, nvars>>

QNext ==
    \/ \E call \in QueryArgs : QueryCall(call[1], call[2])
    \/ ListResponse
    \/ ListFails
    \/ \E i \in 1..MaxDbPages : BlockResponse(i)
    \/ \E i \in 1..MaxDbPages : BlockFails(i)
    \/ QueryReturn
    \/ LeftoversDone

SpecQuery == QInit /\ [][QNext]_vars

\* The whole listing of the database
AllPages == Flatten(db)

\* C11: a query any of whose requests (database query or block children) was
\* rejected rejects, and never returns a list of contents; the cached page list
\* is absent or the whole listing, never a part of it; a query that has to list
\* starts from the first cursor with nothing accumulated
C11_FailureRejects ==
    /\ qOut # NotRun /\ qOut.failed => qOut.value = Throw
    /\ query # Idle /\ query.failed => query.pc = "rejected" /\ qOut.value = Throw
    /\ pageCache = Null \/ pageCache = Arr(AllPages)
    /\ query # Idle /\ query.pc = "listing" /\ query.dbRequests = 0
          => query.cursor = Undefined /\ query.acc = <<>>

\* getAll that had to list a database of several result pages: one of its two
\* pages is transformed, the other rejected on its blocks
C11_Witness ==
    /\ query # Idle /\ query.op = "getAll" /\ query.pc = "rejected"
    /\ \E i, j \in 1..Len(query.tasks) :
          query.tasks[i].pc = "done" /\ query.tasks[j].pc = "failed"
    /\ qOut.op = "getAll" /\ qOut.value = Throw
    /\ Len(db) > 1 /\ ~query.hadPages

\* The content of a page whose blocks were all fetched
ContentOf(page) == transformNotionPageToContent(page, Flatten(BlocksServed(page)))

\* The places in the listing of the pages whose Slug text is exactly slug
SlugPlaces(slug) == {i \in 1..Len(AllPages) : RawSlug(AllPages[i]) = slug}

\* C12: getBySlug(s) returns the content of the first listed page whose Slug
\* text is s character for character, and without such a page returns null
\* having requested no blocks
C12_FirstExactSlug ==
    qOut # NotRun /\ qOut.op = "getBySlug" /\ ~qOut.failed =>
        IF SlugPlaces(qOut.arg) = {}
        THEN qOut.value = Null /\ qOut.requested = {}
        ELSE \E i \in SlugPlaces(qOut.arg) :
                /\ \A j \in SlugPlaces(qOut.arg) : i <= j
                /\ qOut.value = ContentOf(AllPages[i])

\* getBySlug("ep1") has returned the second listed page, the first having the
\* slug "Ep1"
C12_Witness ==
    /\ qOut # NotRun /\ qOut.op = "getBySlug" /\ ~qOut.failed
    /\ qOut.arg = Str(<<"e", "p", "1">>)
    /\ SlugPlaces(qOut.arg) = {2}
    /\ RawSlug(AllPages[1]) = Str(<<"E", "p", "1">>)
    /\ qOut.value = ContentOf(AllPages[2])

\* The names of the Project tags of a page
TagNames(p) ==
    LET tags == OptGet(Get(Get(p, "properties"), "Project"), "multi_select") IN
    IF Truthy(tags) THEN {Get(tags.a[i], "name").s : i \in 1..Len(tags.a)} ELSE {}

\* A tag name in lower case with every run of whitespace turned into a hyphen
TagSlug(name) == ReplaceSpaces(LowerCase(name))

\* The contents of the listed pages that satisfy Wanted, in listing order
ContentsWhere(Wanted(_)) ==
    LET wanted == SelectSeq(AllPages, Wanted) IN
    Arr([i \in 1..Len(wanted) |-> ContentOf(wanted[i])])

\* C13 as stated: getByProject(q) returns the pages with a tag equal to q up to
\* letter case, and no others
C13_MatchesUpToCase ==
    qOut # NotRun /\ qOut.op = "getByProject" /\ ~qOut.failed =>
        qOut.value = ContentsWhere(LAMBDA p : \E name \in TagNames(p) :
                                                LowerCase(name) = LowerCase(qOut.arg.s))

\* C13 amended: getByProject(q) returns, in listing order, the pages with a tag
\* whose lower-cased name with whitespace runs hyphenated equals q in lower
\* case, and no others
C13_MatchesTagSlug ==
    qOut # NotRun /\ qOut.op = "getByProject" /\ ~qOut.failed =>
        qOut.value = ContentsWhere(LAMBDA p : \E name \in TagNames(p) :
                                                TagSlug(name) = LowerCase(qOut.arg.s))

\* getByProject("my-lab") has returned the page tagged "My  Lab"
C13_Witness ==
    /\ qOut # NotRun /\ qOut.op = "getByProject" /\ ~qOut.failed
    /\ qOut.arg = Str(<<"m", "y", "-", "l", "a", "b">>)
    /\ \E i \in 1..Len(AllPages) :
          /\ <<"M", "y", " ", " ", "L", "a", "b">> \in TagNames(AllPages[i])
          /\ qOut.value = Arr(<<ContentOf(AllPages[i])>>)

\* The contents a query handed back
Handed(out) ==
    IF out.value.t = "array" THEN {out.value.a[i] : i \in 1..Len(out.value.a)}
    ELSE {out.value}

\* The pages a query needed whose transformPage call had completed before it
NeededCached(out) ==
    {page \in {Needed(out.op, out.arg, AllPages)[i] :
                  i \in 1..Len(Needed(out.op, out.arg, AllPages))} :
        CacheKey(page) \in DOMAIN out.cachedAtCall}

-----------------------------------------------------------------------------
(* The reading time of an article (lib/transformers.ts) under a change of its
   paragraphs: an article is transformed, then its paragraphs are replaced by
   ones with twice the words and it is transformed again *)

MaxCopies == 100        \* most paragraphs in a block list
MaxChars == 450         \* longest paragraph text

\* n words, one space between two
Words(n) == [i \in 1..(IF n = 0 THEN 0 ELSE 2 * n - 1) |-> IF i % 2 = 1 THEN "w" ELSE " "]

ParagraphTexts ==
    {<<>>, <<" ">>, <<"w">>, <<" ", "w", " ">>, Words(100), Words(150), Words(200)}

\* An optional heading, then k times the same paragraph
ReadingLists ==
    {head \o [i \in 1..k |-> Par(text)] :
        head \in {<<>>, <<Heading2>>}, k \in {1, 2, MaxCopies}, text \in ParagraphTexts}

\* The ways to write a paragraph with twice the words of a text: the text
\* repeated after a space; the words anew with one space between two; the
\* same with a space before and after
Rewrites == {"repeated", "tight", "padded"}

Rewritten(text, how) ==
    CASE how = "repeated" -> text \o <<" ">> \o text
      [] how = "tight" -> Words(2 * Tokens(text))
      [] how = "padded" -> <<" ">> \o Words(2 * Tokens(text)) \o <<" ">>

Replaced(block, how) ==
    IF HasType(block, PARAGRAPH) THEN Par(Rewritten(ParagraphText(block), how)) ELSE block

RInit ==
    /\ xPage = PageOf(WithProp(GoodProps, "Content Type", SelectProp(ARTICLE)))
    /\ xBlocks \in ReadingLists
    /\ xFields = NotRun
    /\ xOut = NotRun
    /\ CIdle /\ LIdle /\ BIdle /\ TIdle /\ QIdle /\ NIdle

\* Every paragraph is replaced by one with twice the words, and the article is
\* transformed again
Replace(how) ==
    /\ xOut # NotRun
    /\ \E blocks \in {[i \in 1..Len(xBlocks) |-> Replaced(xBlocks[i], how)]} :
          /\ blocks # xBlocks
          /\ \A i \in 1..Len(blocks) : Len(ParagraphText(blocks[i])) <= MaxChars
          /\ xBlocks' = blocks
          /\ xOut' = transformNotionPageToContent(xPage, blocks)
    /\ UNCHANGED <<xPage, xFields, cvars, lvars, bvars, tvars, qvars, nvars>>

RNext ==
    \/ Transform
    \/ \E how \in Rewrites : Replace(how)

SpecReading == RInit /\ [][RNext]_vars

(* C20: replacing the paragraphs of an article by ones with twice the word
   count never yields a smaller readingTime. *)
C20_ReadingTimeMonotone ==
    [][xOut # NotRun => xOut'.o.readingTime.n >= xOut.o.readingTime.n]_vars

-----------------------------------------------------------------------------
(* The status script (scripts/auto-publish-status.ts): updateStatusToPublished
   queries the pages that are ready and sets each of them to published *)

MaxStatusPages == 3     \* most pages in the database
QueryPageLimit == 2     \* most pages the remote puts into one query response

READY == "Ready for Web"
PUBLISHED == "Published"
Statuses == {READY, PUBLISHED, "Draft"}

\* The pages of the database in their order that are ready
ReadyPages(st) == SelectSeq([i \in 1..Len(st) |-> i], LAMBDA i : st[i].status = READY)

\* The response to notion.databases.query without a cursor: the first result
\* page of the pages that pass the filter
FirstResultPage(st) ==
    SubSeq(ReadyPages(st), 1,
           IF Len(ReadyPages(st)) < QueryPageLimit THEN Len(ReadyPages(st)) ELSE QueryPageLimit)

\* The handler of a rejection passing the error on
Rethrown(p) == [p EXCEPT !.pc = "done", !.failed = TRUE, !.threw = TRUE]

\* catch (error): the warning is printed and the function returns
Caught(p) == [p EXCEPT !.pc = "done", !.failed = TRUE, !.warned = TRUE]

\* Every page is a full page object or a partial one (without properties)
PInit ==
    /\ \E n \in 0..MaxStatusPages :
          status \in [1..n -> [status : Statuses, full : BOOLEAN]]
    /\ pub = [pc |-> "start", results |-> <<>>, i |-> 1, readyAtStart |-> {}, updated |-> {},
              failed |-> FALSE, warned |-> FALSE, threw |-> FALSE]
    /\ api = NotRun /\ fn = NotRun /\ queries = <<>> /\ requests = <<>>
    /\ XIdle /\ CIdle /\ LIdle /\ BIdle /\ TIdle /\ QIdle /\ GIdle /\ HIdle

\* updateStatusToPublished() is called and sends its query
StatusQuery ==
    /\ pub.pc = "start"
    /\ pub' = [pub EXCEPT !.pc = "query",
                          !.readyAtStart = {i \in 1..Len(status) : status[i].status = READY}]
    /\ UNCHANGED <<status, api, fn, queries, requests, gvars, hvars, xvars, cvars, lvars, bvars, tvars, qvars>>

\* The query is answered
StatusQueryResponse ==
    /\ pub.pc = "query"
    /\ pub' = [pub EXCEPT !.pc = "loop", !.results = FirstResultPage(status), !.i = 1]
    /\ UNCHANGED <<status, api, fn, queries, requests, gvars, hvars, xvars, cvars, lvars, bvars, tvars, qvars>>

\* The query is rejected
StatusQueryFails ==
    /\ pub.pc = "query"
    /\ pub' = Caught(pub)
    /\ UNCHANGED <<status, api, fn, queries, requests, gvars, hvars, xvars, cvars, lvars, bvars, tvars, qvars>>

\* if (!('properties' in page)) continue
SkipPartial ==
    /\ pub.pc = "loop" /\ pub.i <= Len(pub.results)
    /\ ~status[pub.results[pub.i]].full
    /\ pub' = [pub EXCEPT !.i = @ + 1]
    /\ UNCHANGED <<status, api, fn, queries, requests, gvars, hvars, xvars, cvars, lvars, bvars, tvars, qvars>>

\* notion.pages.update for the page the loop is at succeeds
UpdateResponse ==
    /\ pub.pc = "loop" /\ pub.i <= Len(pub.results)
    /\ status[pub.results[pub.i]].full
    /\ status' = [status EXCEPT ![pub.results[pub.i]].status = PUBLISHED]
    /\ pub' = [pub EXCEPT !.i = @ + 1, !.updated = @ \cup {pub.results[pub.i]}]
    /\ UNCHANGED <<api, fn, queries, requests, gvars, hvars, xvars, cvars, lvars, bvars, tvars, qvars>>

\* notion.pages.update for the page the loop is at is rejected
UpdateFails ==
    /\ pub.pc = "loop" /\ pub.i <= Len(pub.results)
    /\ status[pub.results[pub.i]].full
    /\ pub' = Caught(pub)
    /\ UNCHANGED <<status, api, fn, queries, requests, gvars, hvars, xvars, cvars, lvars, bvars, tvars, qvars>>

\* The loop is through: the function returns
StatusDone ==
    /\ pub.pc = "loop" /\ pub.i > Len(pub.results)
    /\ pub' = [pub EXCEPT !.pc = "done"]
    /\ UNCHANGED <<status, api, fn, queries, requests, gvars, hvars, xvars, cvars, lvars, bvars, tvars, qvars>>

PNext ==
    \/ StatusQuery
    \/ StatusQueryResponse
    \/ StatusQueryFails
    \/ SkipPartial
    \/ UpdateResponse
    \/ UpdateFails
    \/ StatusDone

SpecPublish == PInit /\ [][PNext]_vars

\* C22: a rejected status query or page update is caught: the script prints
\* its warning and ends without passing the failure on
C22_FailureIsWarning ==
    /\ ~pub.threw
    /\ pub.failed => pub.pc = "done" /\ pub.warned

\* the second page update was rejected after the first had gone through
C22_Witness ==
    /\ pub.failed /\ pub.warned /\ pub.pc = "done" /\ ~pub.threw
    /\ pub.updated # {} /\ pub.i = 2

\* C23: when the script ends without a rejected request, every page that was
\* ready when it started is published, and no other page was updated
C23_AllReadyPublished ==
    (pub.pc = "done" /\ ~pub.failed) =>
        /\ \A i \in pub.readyAtStart : status[i].status = PUBLISHED
        /\ pub.updated \subseteq pub.readyAtStart

-----------------------------------------------------------------------------
(* The endpoint GET /api/experiences/[slug].json
   (pages/api/experiences/[slug].json.ts) *)

HttpResponse(code, body) == [status |-> code, body |-> Obj(body)]

SlugParams ==
    {Undefined, EmptyStr, Str(<<"e", "p", "1">>), Str(<<"E", "p", "1">>), Str(<<"e", "p">>)}

\* What loader.getBySlug(slug) resolves to over a listing when none of its
\* requests is rejected
GetBySlugResolved(pages, slug) ==
    IF Needed("getBySlug", slug, pages) = <<>> THEN Null
    ELSE transformNotionPageToContent(Needed("getBySlug", slug, pages)[1],
                                      Flatten(BlocksServed(Needed("getBySlug", slug, pages)[1])))

\* The handler answering a lookup miss from its catch block
RespondMissAsError(slug, loaded) ==
    IF IsThrow(loaded) \/ ~Truthy(loaded)
    THEN HttpResponse(500, [success |-> Bool(FALSE), error |-> Str(<<"m", "e", "s", "s", "a", "g", "e">>)])
    ELSE HttpResponse(200, [success |-> Bool(TRUE), schema_version |-> Str(<<"1", ".", "0">>),
                        data |-> loaded])

\* The handler from `const content = await loader.getBySlug(slug)` on; loaded
\* is what the await came to
Respond(slug, loaded) ==
    IF IsThrow(loaded)
    THEN HttpResponse(500, [success |-> Bool(FALSE), error |-> Str(<<"m", "e", "s", "s", "a", "g", "e">>)])
    ELSE IF ~Truthy(loaded)
    THEN HttpResponse(404, [success |-> Bool(FALSE),
                        error |-> Str(<<"n", "o", "t", " ", "f", "o", "u", "n", "d", ":">> \o slug.s)])
    ELSE HttpResponse(200, [success |-> Bool(TRUE), schema_version |-> Str(<<"1", ".", "0">>),
                        data |-> loaded])

AInit ==
    /\ \E slug \in SlugParams, listing \in Listings :
          api = [pc |-> "request", slug |-> slug, listing |-> listing, loaded |-> "none",
                 response |-> NotRun]
    /\ status = <<>> /\ pub = NotRun /\ fn = NotRun /\ queries = <<>> /\ requests = <<>>
    /\ XIdle /\ CIdle /\ LIdle /\ BIdle /\ TIdle /\ QIdle /\ GIdle /\ HIdle

\* GET is called: without a slug it answers at once, else it calls the loader
ApiGet ==
    /\ api.pc = "request"
    /\ api' = IF ~Truthy(api.slug)
              THEN [api EXCEPT !.pc = "done",
                               !.response = HttpResponse(400, [success |-> Bool(FALSE),
                                   error |-> Str(<<"r", "e", "q", "u", "i", "r", "e", "d">>)])]
              ELSE [api EXCEPT !.pc = "loading"]
    /\ UNCHANGED <<status, pub, fn, queries, requests, gvars, hvars, xvars, cvars, lvars, bvars, tvars, qvars>>

\* loader.getBySlug(slug) resolves
LoaderResolves ==
    /\ api.pc = "loading"
    /\ \E loaded \in {GetBySlugResolved(api.listing, api.slug)} :
          api' = [api EXCEPT !.pc = "done", !.loaded = "resolved",
                             !.response = Respond(api.slug, loaded)]
    /\ UNCHANGED <<status, pub, fn, queries, requests, gvars, hvars, xvars, cvars, lvars, bvars, tvars, qvars>>

\* loader.getBySlug(slug) rejects
LoaderRejects ==
    /\ api.pc = "loading"
    /\ api' = [api EXCEPT !.pc = "done", !.loaded = "rejected",
                          !.response = Respond(api.slug, Throw)]
    /\ UNCHANGED <<status, pub, fn, queries, requests, gvars, hvars, xvars, cvars, lvars, bvars, tvars, qvars>>

ANext ==
    \/ ApiGet
    \/ LoaderResolves
    \/ LoaderRejects

SpecApi == AInit /\ [][ANext]_vars

\* The listed pages whose slug is the one asked for
Hits == {i \in 1..Len(api.listing) : RawSlug(api.listing[i]) = api.slug}

\* C24: the endpoint answers 400 without a slug, 500 when the loader rejects,
\* 404 when no listed page has the slug, and else 200 carrying the content of
\* the page
C24_StatusCodes ==
    api.pc = "done" =>
        IF ~Truthy(api.slug) THEN api.response.status = 400 /\ api.loaded = "none"
        ELSE IF api.loaded = "rejected" THEN api.response.status = 500
        ELSE IF Hits = {} THEN api.response.status = 404
                               /\ api.response.body.o.success = Bool(FALSE)
        ELSE /\ api.response.status = 200
             /\ api.response.body.o.success = Bool(TRUE)
             /\ \E i \in Hits : api.response.body.o.data = ContentOf(api.listing[i])

\* the slug "Ep1" over a listing that has "ep1" only: 404
C24_Witness ==
    /\ api.pc = "done" /\ api.slug = Str(<<"E", "p", "1">>) /\ api.loaded = "resolved"
    /\ Len(api.listing) = 2 /\ Hits = {}
    /\ \E i \in 1..2 : RawSlug(api.listing[i]) = Str(<<"e", "p", "1">>)
    /\ api.response.status = 404

-----------------------------------------------------------------------------
(* generateFilename (lib/image-cache.ts) over URLs put together from their
   parts: a URL and the same URL after a rotation of its host and query *)

Schemes == {HTTPS, <<>>}          \* without the scheme new URL raises
Hosts == {<<"h">>, <<"g">>}
Paths ==
    {<<>>, <<"/">>, <<"/", "a">>, <<"/", "a", ".", "P", "N", "G">>,
     <<"/", "a", ".", "b", "/", "c", ".", "j", "p", "e", "g">>,
     <<"/", "x", ".", "m", "p", "3", ".", "t", "x", "t">>}
Queries == {<<>>, <<"?", "1">>, <<"?", "f", "=", ".", "g", "i", "f">>}
FilenameIds == {Undefined, EmptyStr, Str(<<"p", "1">>)}

UrlOf(scheme, host, path, search) == scheme \o host \o path \o search

FInit ==
    /\ \E scheme \in Schemes, host, otherHost \in Hosts, path \in Paths,
          search, otherSearch \in Queries, stableId \in FilenameIds :
          fn = [pc |-> "args", scheme |-> scheme, path |-> path,
                url |-> UrlOf(scheme, host, path, search),
                rotated |-> UrlOf(scheme, otherHost, path, otherSearch),
                stableId |-> stableId]
    /\ status = <<>> /\ pub = NotRun /\ api = NotRun /\ queries = <<>> /\ requests = <<>>
    /\ XIdle /\ CIdle /\ LIdle /\ BIdle /\ TIdle /\ QIdle /\ GIdle /\ HIdle

\* generateFilename is called for the URL and for the rotated URL
GenerateFilenames ==
    /\ fn.pc = "args"
    /\ fn' = [pc |-> "done", name |-> generateFilename(fn.url, fn.stableId),
              rotatedName |-> generateFilename(fn.rotated, fn.stableId)] @@ fn
    /\ UNCHANGED <<status, pub, api, queries, requests, gvars, hvars, xvars, cvars, lvars, bvars, tvars, qvars>>

SpecFilename == FInit /\ [][GenerateFilenames]_vars

\* The extension a path ends in, in lower case, when it is one of the known ones
ExtensionOf(scheme, path) ==
    IF scheme = <<>> THEN <<".", "j", "p", "g">>
    ELSE CASE path = <<"/", "a", ".", "P", "N", "G">> -> <<".", "p", "n", "g">>
           [] path = <<"/", "a", ".", "b", "/", "c", ".", "j", "p", "e", "g">> ->
                 <<".", "j", "p", "e", "g">>
           [] OTHER -> <<".", "j", "p", "g">>

\* C25: with a stable id the filename is the id plus the extension of the URL
\* path ('.jpg' without a known one), the same for URLs that differ in host or
\* query only; without one it is the hash of the whole URL plus that extension
C25_FilenameStable ==
    fn # NotRun /\ fn.pc = "done" =>
        IF Truthy(fn.stableId)
        THEN /\ fn.name = fn.stableId.s \o ExtensionOf(fn.scheme, fn.path)
             /\ fn.rotatedName = fn.name
        ELSE /\ fn.name = Md5(fn.url) \o ExtensionOf(fn.scheme, fn.path)
             /\ fn.rotatedName = Md5(fn.rotated) \o ExtensionOf(fn.scheme, fn.path)

\* https://h/a.PNG?1 and https://g/a.PNG?f=.gif under the id p1: p1.png twice
C25_Witness ==
    /\ fn # NotRun /\ fn.pc = "done" /\ fn.stableId = Str(<<"p", "1">>)
    /\ fn.url = HTTPS \o <<"h", "/", "a", ".", "P", "N", "G", "?", "1">>
    /\ fn.rotated = HTTPS \o <<"g", "/", "a", ".", "P", "N", "G", "?", "f", "=", ".", "g", "i", "f">>
    /\ fn.name = <<"p", "1", ".", "p", "n", "g">> /\ fn.rotatedName = fn.name

-----------------------------------------------------------------------------
(* The order of the requests of one pagination loop *)

\* The log of the loop under way, or of the call that returned last
PagingLog ==
    IF fetch # Idle THEN [sent |-> fetch.sent, got |-> fetch.got, at |-> "awaiting"]
    ELSE IF fetched = NotRun THEN [sent |-> <<>>, got |-> <<>>, at |-> "returned"]
    ELSE [sent |-> fetched.sent, got |-> fetched.got,
          at |-> IF fetched.value = Throw THEN "raised" ELSE "returned"]

\* The first request carries no cursor; a request is sent only when every
\* earlier one was answered, with the next cursor of the latest response; a
\* response without a next cursor is the last of its loop and ends it
RequestsInSequence ==
    LET log == PagingLog IN
    /\ log.sent # <<>> => log.sent[1] = Undefined
    /\ Len(log.sent) = Len(log.got) + (IF log.at = "returned" THEN 0 ELSE 1)
    /\ \A k \in 1..Len(log.got) :
          IF Truthy(log.got[k])
          THEN k + 1 <= Len(log.sent) /\ log.sent[k + 1] = log.got[k]
          ELSE k = Len(log.sent) /\ log.at = "returned"
    /\ (log.at = "returned" /\ log.got # <<>>) => ~Truthy(log.got[Len(log.got)])
    /\ fetch # Idle => fetch.cursor = log.sent[Len(log.sent)]

\* C26: within one resource the requests go out one after the other, each with
\* the cursor of the response before it and none after a response without a
\* cursor, and every loop started comes to its end
C26_SequentialPagination ==
    /\ []RequestsInSequence
    /\ (fetch # Idle) ~> (fetch = Idle)

\* three requests: no cursor, c2, c3, answered c2, c3 and no cursor
C26_Witness ==
    /\ fetch = Idle /\ fetched # NotRun /\ fetched.value # Throw
    /\ fetched.sent = <<Undefined, Token(2), Token(3)>>
    /\ fetched.got = <<Token(2), Token(3), Null>>

-----------------------------------------------------------------------------
(* The order of the contents getAll returns *)

\* The contents of all listed pages, in listing order
AllContents == [i \in 1..Len(AllPages) |-> ContentOf(AllPages[i])]

\* C27: getAll() returns one content for every listed page in the order of the
\* listing, in whatever order the transforms ended, and getAll(t) the contents
\* of type t among them in the same order
C27_GetAllInListOrder ==
    qOut # NotRun /\ qOut.op = "getAll" /\ qOut.value # Throw =>
        IF qOut.arg = Undefined THEN qOut.value = Arr(AllContents)
        ELSE qOut.value = Arr(SelectSeq(AllContents,
                                        LAMBDA c : Get(c, "contentType") = qOut.arg))

\* getAll() over two pages, the transform of the second ended before the first
C27_Witness ==
    /\ qOut # NotRun /\ qOut.op = "getAll" /\ qOut.arg = Undefined /\ qOut.value # Throw
    /\ qOut.order = <<2, 1>>
    /\ Len(qOut.value.a) = 2 /\ qOut.value.a[1] # qOut.value.a[2]
    /\ qOut.value.a[1] = ContentOf(AllPages[1])

-----------------------------------------------------------------------------
(* Overlapping cacheImage calls for one URL *)

\* No two calls are in the download of one URL at a time
OneDownloadAtATime ==
    \A c, d \in Callers :
        (calls[c].pc = "fetching" /\ calls[d].pc = "fetching" /\ calls[c].url = calls[d].url)
            => c = d

\* An overlapped call that returns a path returns the path the URL was first
\* answered with
OverlappedSamePath ==
    (lastCall # NotRun /\ lastCall.overlapped /\ lastCall.result # Null) =>
        lastCall.result = Str(firstPath[lastCall.url.s])

\* A step leaves every entry of the in-memory map as it is
MapEntriesKept ==
    \A url \in DOMAIN imageMap : url \in DOMAIN imageMap' /\ imageMap'[url] = imageMap[url]

\* C29: when a cacheImage call for a URL starts while another for the same URL
\* is suspended in its download, the URL is downloaded once, both calls return
\* the same path, and the URL's entry in the map is never replaced
C29_OverlapOneDownload ==
    /\ []OneDownloadAtATime
    /\ []OverlappedSamePath
    /\ [][MapEntriesKept]_vars

-----------------------------------------------------------------------------
(* Loader queries that overlap: two clients of the static caches, each calling
   getAll, getBySlug, getByProject or getByCategory while the other's query may
   be suspended in a request *)

Clients == {1, 2}

OverlapArgs ==
    {<<"getAll", Undefined>>, <<"getBySlug", Str(<<"e", "p", "1">>)>>,
     <<"getByProject", Str(<<"l", "a", "b">>)>>, <<"getByCategory", Str(<<"W">>)>>}

\* The array or object v as the one created in client c's call: two values
\* created in different calls are different objects, whatever they hold
Own(c, v) == v @@ [ref |-> c]

\* The block fetches counted so far, with those the transforms in tasks start
Counted(blocks, tasks) ==
    LET keys == {CacheKey(tasks[i].page) : i \in {j \in 1..Len(tasks) : tasks[j].pc = "blocks"}}
    IN  [k \in DOMAIN blocks \cup keys |->
            (IF k \in DOMAIN blocks THEN blocks[k] ELSE 0) + (IF k \in keys THEN 1 ELSE 0)]

\* The query with its page list: the transforms of the pages it needs start
Begin(q, pages) ==
    LET needed == Needed(q.op, q.arg, pages) IN
    [q EXCEPT !.pc = "transforming",
              !.tasks = [i \in 1..Len(needed) |-> StartTransform(needed[i], contentCache)]]

OInit ==
    /\ \E l \in Listings : db = Chunks(l, 1)       \* one page to a result page
    /\ pageCache = Null
    /\ contentCache = <<>>
    /\ queries = [c \in Clients |-> Idle]
    /\ requests = [lists |-> 0, blocks |-> <<>>]
    /\ query = NotRun /\ qOut = NotRun
    /\ remote = <<>> /\ fetch = NotRun /\ fetched = NotRun
    /\ tIn = NotRun /\ tp = NotRun /\ tOut = NotRun
    /\ XIdle /\ CIdle /\ BIdle /\ PIdle /\ AIdle /\ FIdle /\ GIdle /\ HIdle

\* Client c calls a query: fetchAllPages returns the cached list and the
\* transforms start, or it sends the first request of its database query
Call(c, op, arg) ==
    /\ queries[c] = Idle
    /\ \E q \in {[op |-> op, arg |-> arg, pc |-> "listing", cursor |-> Undefined,
                  acc |-> <<>>, tasks |-> <<>>]} :
          IF Truthy(pageCache)
          THEN \E begun \in {Begin(q, pageCache.a)} :
                  /\ queries' = [queries EXCEPT ![c] = begun]
                  /\ requests' = [requests EXCEPT !.blocks = Counted(@, begun.tasks)]
          ELSE /\ queries' = [queries EXCEPT ![c] = q]
               /\ requests' = [requests EXCEPT !.lists = @ + 1]
    /\ UNCHANGED <<db, pageCache, contentCache, query, qOut, remote, fetch, fetched,
                   tIn, tp, tOut, xvars, cvars, bvars, pvars, avars, fvars, gvars, hvars>>

\* The database query of client c is answered: one turn of the loop of
\* fetchAllPages; after the last, pageCache is set to the list of this call
PagesResponse(c) ==
    /\ queries[c] # Idle /\ queries[c].pc = "listing"
    /\ \E step \in {PageStep(queries[c].acc, RemoteResponse(db, queries[c].cursor))} :
          IF Truthy(step.cursor)
          THEN /\ queries' = [queries EXCEPT ![c].acc = step.acc, ![c].cursor = step.cursor]
               /\ UNCHANGED <<pageCache, requests>>
          ELSE \E begun \in {Begin([queries[c] EXCEPT !.acc = step.acc], step.acc)} :
                  /\ pageCache' = Own(c, Arr(step.acc))
                  /\ queries' = [queries EXCEPT ![c] = begun]
                  /\ requests' = [requests EXCEPT !.blocks = Counted(@, begun.tasks)]
    /\ UNCHANGED <<db, contentCache, query, qOut, remote, fetch, fetched,
                   tIn, tp, tOut, xvars, cvars, bvars, pvars, avars, fvars, gvars, hvars>>

\* The block-children request of transform i of client c is answered: one turn
\* of the loop of fetchPageBlocks and, after the last, the rest of transformPage
BlocksResponse(c, i) ==
    /\ queries[c] # Idle /\ queries[c].pc = "transforming"
    /\ i \in 1..Len(queries[c].tasks) /\ queries[c].tasks[i].pc = "blocks"
    /\ \E task \in {queries[c].tasks[i]} :
       \E step \in {PageStep(task.acc, RemoteResponse(BlocksServed(task.page), task.cursor))} :
          IF Truthy(step.cursor)
          THEN /\ queries' = [queries EXCEPT ![c].tasks[i].acc = step.acc,
                                             ![c].tasks[i].cursor = step.cursor]
               /\ UNCHANGED contentCache
          ELSE \E transformed \in {transformNotionPageToContent(task.page, step.acc)} :
               IF IsThrow(transformed)
               THEN /\ queries' = [queries EXCEPT ![c].tasks[i].pc = "failed"]
                    /\ UNCHANGED contentCache
               ELSE /\ queries' = [queries EXCEPT ![c].tasks[i].pc = "done",
                                                  ![c].tasks[i].result = Own(c, transformed)]
                    /\ contentCache' = (CacheKey(task.page) :> Own(c, transformed)) @@ contentCache
    /\ UNCHANGED <<db, pageCache, requests, query, qOut, remote, fetch, fetched,
                   tIn, tp, tOut, xvars, cvars, bvars, pvars, avars, fvars, gvars, hvars>>

\* Every transform of client c's query is through: the query returns
Return(c) ==
    /\ queries[c] # Idle /\ queries[c].pc = "transforming"
    /\ PromiseAll(queries[c].tasks) # "pending"
    /\ queries' = [queries EXCEPT ![c] = Idle]
    /\ UNCHANGED <<db, pageCache, contentCache, requests, query, qOut, remote, fetch, fetched,
                   tIn, tp, tOut, xvars, cvars, bvars, pvars, avars, fvars, gvars, hvars>>

ONext ==
    \/ \E c \in Clients, call \in OverlapArgs : Call(c, call[1], call[2])
    \/ \E c \in Clients : PagesResponse(c)
    \/ \E c \in Clients, i \in 1..MaxDbPages : BlocksResponse(c, i)
    \/ \E c \in Clients : Return(c)

SpecOverlap == OInit /\ [][ONext]_vars

\* A step leaves the list pageCache holds and every entry of contentCache as
\* they are
CachesKept ==
    /\ Truthy(pageCache) => pageCache' = pageCache
    /\ \A key \in DOMAIN contentCache :
          key \in DOMAIN contentCache' /\ contentCache'[key] = contentCache[key]

\* C28: whatever the interleaving of the loader calls, pageCache once set is
\* never cleared nor replaced by another list, and contentCache never loses a
\* key nor has the value under a key replaced
C28_CachesAppendOnly == [][CachesKept]_vars

\* C30: whatever the interleaving of the queries, overlapping ones included,
\* the page list is queried at most once and the blocks of a page with a given
\* id and last_edited_time are fetched at most once
C30_FetchedAtMostOnce ==
    /\ requests.lists <= 1
    /\ \A key \in DOMAIN requests.blocks : requests.blocks[key] <= 1

-----------------------------------------------------------------------------
(* The tiers of cacheImage: the in-memory map, then the disk, then the download *)

\* The step is a cacheImage call that returned without a download
ReturnsAtOnce == lastCall' # lastCall /\ lastCall'.fetches = 0 /\ Truthy(lastCall'.url)

\* The step is a cacheImage call suspended in its download
GoesToDownload(c) == calls[c] = Idle /\ calls'[c] # Idle

\* A step of cacheImage follows the tiers
TiersInOrder ==
    /\ ReturnsAtOnce =>
          LET url == lastCall'.url
              filename == generateFilename(url.s, lastCall'.stableId)
          IN  /\ disk' = disk
              /\ url.s \in DOMAIN imageMap =>
                    /\ ~lastCall'.checked
                    /\ imageMap' = imageMap
                    /\ lastCall'.result = Str(imageMap[url.s])
              /\ (url.s \notin DOMAIN imageMap /\ IsRemote(url) /\ filename \in disk) =>
                    /\ lastCall'.checked
                    /\ imageMap' = (url.s :> PublicPath(filename)) @@ imageMap
                    /\ lastCall'.result = Str(PublicPath(filename))
    /\ \A c \in Callers : GoesToDownload(c) =>
          /\ calls'[c].url.s \notin DOMAIN imageMap
          /\ calls'[c].filename \notin disk

\* C31: a URL found in the in-memory map causes neither a look at the disk nor
\* a download; otherwise, when the file for the URL and stable id is on disk,
\* nothing is downloaded, the disk stays as it is, the URL is entered into the
\* map with the path of the file, and that path is returned
C31_TiersInOrder == [][TiersInOrder]_vars

\* a call found its file on disk, kept from an earlier run, and entered it
C31_Witness ==
    /\ lastCall # NotRun /\ lastCall.url = Str(U1) /\ lastCall.checked /\ lastCall.fetches = 0
    /\ lastCall.prior = Null
    /\ lastCall.result = Str(PublicPath(generateFilename(U1, lastCall.stableId)))
    /\ imageMap[U1] = lastCall.result.s

-----------------------------------------------------------------------------
(* What fetchPageBlocks asks the remote for *)

\* The ids named by the requests of the loop under way or of the last call
AskedSoFar ==
    IF fetch # Idle THEN [op |-> fetch.op, asked |-> fetch.asked]
    ELSE IF fetched = NotRun THEN [op |-> "none", asked |-> <<>>]
    ELSE [op |-> fetched.op, asked |-> fetched.asked]

\* C32: every request of fetchPageBlocks names the page id, never the id of a
\* block, whatever the has_children flags of the blocks say, and the call
\* returns the top-level blocks of the page with one request per result page
C32_TopLevelBlocksOnly ==
    /\ AskedSoFar.op = "fetchPageBlocks" =>
          \A k \in 1..Len(AskedSoFar.asked) : AskedSoFar.asked[k] = PageId
    /\ (fetch = Idle /\ fetched # NotRun /\ fetched.op = "fetchPageBlocks"
           /\ fetched.value # Throw) =>
          /\ fetched.value = Arr(Flatten(remote.blocks))
          /\ Len(fetched.asked) = Len(remote.blocks)

\* three result pages, blocks flagged as having children in the first: three
\* requests, all for the page
C32_Witness ==
    /\ fetch = Idle /\ fetched # NotRun /\ fetched.op = "fetchPageBlocks"
    /\ fetched.value # Throw /\ Len(remote.blocks) = 3
    /\ \E i \in 1..Len(remote.blocks[1]) : Truthy(Get(remote.blocks[1][i], "has_children"))
    /\ fetched.asked = <<PageId, PageId, PageId>>

-----------------------------------------------------------------------------
(* The transcript of a podcast *)

\* The text of the well-formed blocks that carry text
TextOf(block) ==
    CASE block = Par(<<"n", " ", "1">>) -> <<"n", " ", "1">>
      [] block = Heading1 -> <<"a">>
      [] block = Heading2 -> <<"h">>
      [] block = Heading3 -> <<"c">>
      [] OTHER -> <<>>

\* The lines the paragraphs and headings of a block list stand for, in order:
\* a heading as a header line between two line breaks, a paragraph as its text
LinesOf(blocks) ==
    LET texts == SelectSeq(blocks, LAMBDA b : Get(b, "type").s \in
                              {PARAGRAPH, HEADING_1, HEADING_2, HEADING_3})
    IN  [i \in 1..Len(texts) |->
            IF Get(texts[i], "type") = Str(PARAGRAPH) THEN TextOf(texts[i])
            ELSE <<"\n", "#", "#", " ">> \o TextOf(texts[i]) \o <<"\n">>]

\* lines.join('\n')
RECURSIVE JoinLines(_)
JoinLines(lines) ==
    IF lines = <<>> THEN <<>>
    ELSE IF Len(lines) = 1 THEN lines[1]
    ELSE lines[1] \o <<"\n">> \o JoinLines(Tail(lines))

\* C33: the transcript of a podcast is made of its paragraphs and its headings
\* of the three levels, in document order, a heading as a header line, joined
\* by line breaks; no other block adds to it and no blocks give the empty text
C33_TranscriptFromTextBlocks ==
    (WellFormedInput /\ Returned /\ xOut.o.contentType = Str(PODCAST)) =>
        /\ xOut.o.transcript = Str(JoinLines(LinesOf(xBlocks)))
        /\ xBlocks = <<>> => xOut.o.transcript = EmptyStr

\* a heading, an image and a paragraph: the header line, a line break, the text
C33_Witness ==
    /\ Returned /\ xOut.o.contentType = Str(PODCAST)
    /\ xBlocks = <<Heading1, ImgExternal, Par(<<"n", " ", "1">>)>>
    /\ xOut.o.transcript = Str(<<"\n", "#", "#", " ", "a", "\n", "\n", "n", " ", "1">>)

-----------------------------------------------------------------------------
(* Loaders with and without image caching over the one static contentCache *)

\* C34: a content returned by a loader constructed with cacheImages = true was
\* built by a transformPage call that ran the image cache over it, also when a
\* loader without image caching transformed the page before
C34_CachingLoaderCaches ==
    (tOut # NotRun /\ tOut.by /\ ~IsThrow(tOut.result)) => tOut.through

-----------------------------------------------------------------------------
(* Looking up the slugs of the contents getAll lists *)

\* The slugs of the contents getAll() returns over the listing
ListedSlugs == {Get(AllContents[i], "slug") : i \in 1..Len(AllContents)}

\* C35: getBySlug of the slug of a content that getAll() returns gives a
\* content with that slug, never null, also for a page whose Slug property is
\* missing or empty
C35_ListedSlugFound ==
    (qOut # NotRun /\ qOut.op = "getBySlug" /\ ~qOut.failed /\ qOut.arg \in ListedSlugs) =>
        /\ qOut.value # Null
        /\ Get(qOut.value, "slug") = qOut.arg

-----------------------------------------------------------------------------
(* The shape of the block tree cacheBlockImages returns *)

\* The fields of a media payload that refer to the media file
MediaReference == {"type", "file"}

\* The payload q stands where the payload p stood: the same fields with the
\* same values, but for the reference to the file of a media block and for the
\* children
PayloadKept(block, p, q) ==
    LET free == (IF Get(block, "type").s \in MediaTypes THEN MediaReference ELSE {})
                \cup {"children"}
    IN  /\ DOMAIN p.o \ free = DOMAIN q.o \ free
        /\ \A f \in DOMAIN p.o \ free : q.o[f] = p.o[f]
        /\ "children" \in DOMAIN p.o <=> "children" \in DOMAIN q.o

\* The list outs has the blocks of the list ins, one for one and in order,
\* each with its id, its type and its other fields, at every level walked
RECURSIVE SameShape(_, _)
SameShape(ins, outs) ==
    /\ Len(outs) = Len(ins)
    /\ \A i \in 1..Len(ins) :
          LET key == TypeKey(Get(ins[i], "type").s) IN
          /\ DOMAIN outs[i].o = DOMAIN ins[i].o
          /\ \A f \in DOMAIN ins[i].o \ {key} : outs[i].o[f] = ins[i].o[f]
          /\ PayloadKept(ins[i], ins[i].o[key], outs[i].o[key])
          /\ IF HasNested(ins[i])
             THEN SameShape(ins[i].o[key].o.children.a, outs[i].o[key].o.children.a)
             ELSE "children" \in DOMAIN ins[i].o[key].o =>
                     outs[i].o[key].o.children = ins[i].o[key].o.children

\* C36: the blocks cacheBlockImages returns are the blocks it was given, one
\* for one and in order at every level it walks, each with the id, the type and
\* the other fields it had; only the references to media files differ
C36_StructureKept ==
    (tOut # NotRun /\ ~tOut.hit /\ ~IsThrow(tOut.result) /\ tIn.cacheImages) =>
        SameShape(Transformed.o.blocks.a, tOut.result.o.blocks.a)

\* a block with a nested image and an image after it, both images rewritten
C36_Witness ==
    /\ tOut # NotRun /\ ~tOut.hit /\ ~IsThrow(tOut.result) /\ tIn.cacheImages
    /\ tIn.blocks = <<Nest, Img2>>
    /\ IsRemote(MediaUrl(Nest.o.callout.o.children.a[1]))
    /\ ~IsRemote(MediaUrl(tOut.result.o.blocks.a[1].o.callout.o.children.a[1]))
    /\ ~IsRemote(MediaUrl(tOut.result.o.blocks.a[2]))

-----------------------------------------------------------------------------
(* The URL map of the image cache *)

\* Every entry of the map is a path under /images/ whose file is on disk, and
\* getStats counts the URLs of the map
EntriesOnDisk ==
    /\ \A url \in DOMAIN imageMap :
          /\ StartsWith(imageMap[url], IMAGES)
          /\ SubSeq(imageMap[url], Len(IMAGES) + 1, Len(imageMap[url])) \in disk
    /\ getStats(imageMap).total = Cardinality(DOMAIN imageMap)

\* A step removes no entry, and the return of a call whose download failed
\* leaves the map as it is
EntriesStay ==
    /\ DOMAIN imageMap \subseteq DOMAIN imageMap'
    /\ \A c \in Callers :
          (calls[c].pc = "fetched" /\ ~calls[c].success /\ calls'[c] = Idle) =>
              imageMap' = imageMap

\* C38: every entry of the URL map is a /images/ path whose file is on disk, a
\* failed download adds no entry, no entry is ever removed, and the total of
\* getStats is the number of URLs in the map
C38_MapEntriesBacked == []EntriesOnDisk /\ [][EntriesStay]_vars

\* one URL entered, the download for the other has failed: the total is 1
C38_Witness ==
    /\ DOMAIN imageMap = {U1} /\ getStats(imageMap).total = 1
    /\ lastCall # NotRun /\ lastCall.url = Str(U2) /\ lastCall.fetches = 1
    /\ lastCall.result = Null

-----------------------------------------------------------------------------
(* The backup run (scripts/generate-backup.ts): generateBackup in a process
   of its own. loader.getAll() is the getAll of the queries above, on the
   empty static caches of a new process; performFullBackup writes with
   saveAllContent, saveIndividualContent and saveMetadata; autoCommitBackup
   runs git add, git commit and git push. *)

ALL_EXPERIENCES == <<"a", "l", "l", "-", "e", "x", "p", "e", "r", "i", "e", "n", "c", "e", "s", ".", "j", "s", "o", "n">>
METADATA == <<"m", "e", "t", "a", "d", "a", "t", "a", ".", "j", "s", "o", "n">>
GitCommands == <<"add", "commit", "push">>

\* generateBackup's catch with the exit left out
BackupFailedQuietly(r) == [r EXCEPT !.pc = "exited"]

\* generateBackup's catch: process.exit(1)
BackupFailed(r) == [r EXCEPT !.pc = "exited", !.status = 1]

\* autoCommitBackup's catch: the error is logged, the process ends as it would have
GitFailed(r) == [r EXCEPT !.pc = "exited", !.failedAt = GitCommands[r.git]]

GInit ==
    /\ \E l \in Listings, n \in 1..2 : db = Chunks(l, n)
    /\ pageCache = Null
    /\ contentCache = <<>>
    /\ query = Idle
    /\ qOut = NotRun
    /\ remote = <<>> /\ fetch = NotRun /\ fetched = NotRun
    /\ tIn = NotRun /\ tp = NotRun /\ tOut = NotRun
    /\ content = <<>> /\ save = NotRun /\ files = <<>>
    /\ run = [pc |-> "getAll", status |-> 0, git |-> 0, failedAt |-> "none"]
    /\ XIdle /\ CIdle /\ PIdle /\ AIdle /\ FIdle /\ OIdle /\ HIdle

\* await loader.getAll(): the call, and the responses of the remote up to the
\* point where getAll returns or rejects
GetAll ==
    /\ run.pc = "getAll" /\ qOut = NotRun
    /\ \/ QueryCall("getAll", Undefined)
       \/ ListResponse
       \/ ListFails
       \/ \E i \in 1..MaxDbPages : BlockResponse(i)
       \/ \E i \in 1..MaxDbPages : BlockFails(i)
       \/ QueryReturn

\* getAll rejected: the catch of generateBackup ends the process
GetAllRejected ==
    /\ run.pc = "getAll" /\ qOut # NotRun /\ IsThrow(qOut.value)
    /\ run' = BackupFailed(run)
    /\ UNCHANGED <<pvars, avars, fvars, ovars, hvars, xvars, cvars, lvars, bvars, tvars, qvars>>

\* getAll returned: performFullBackup is called with the content
PerformFullBackup ==
    /\ run.pc = "getAll" /\ qOut # NotRun /\ ~IsThrow(qOut.value)
    /\ content' = qOut.value.a
    /\ run' = [run EXCEPT !.pc = "saveAllContent"]
    /\ UNCHANGED <<save, files, pvars, avars, fvars, ovars, hvars, xvars, cvars, lvars, tvars,
                   qvars>>

\* saveAllContent writes all-experiences.json
SaveAllContent ==
    /\ run.pc = "saveAllContent"
    /\ files' = (ALL_EXPERIENCES :> Arr(content)) @@ files
    /\ save' = Idle
    /\ run' = [run EXCEPT !.pc = "saveIndividualContent"]
    /\ UNCHANGED <<content, pvars, avars, fvars, ovars, hvars, xvars, cvars, lvars, tvars, qvars>>

\* saveIndividualContent, step by step
SaveIndividualContent ==
    /\ run.pc = "saveIndividualContent"
    /\ SaveIndividualContentCall \/ WriteItem \/ NextType \/ SaveReturns

\* saveMetadata writes metadata.json; performFullBackup returns and
\* autoCommitBackup is called
SaveMetadata ==
    /\ run.pc = "saveIndividualContent" /\ save # Idle /\ save.pc = "returned"
    /\ files' = (METADATA :> Arr(content)) @@ files
    /\ run' = [run EXCEPT !.pc = "git", !.git = 1]
    /\ UNCHANGED <<content, save, pvars, avars, fvars, ovars, hvars, xvars, cvars, lvars, tvars,
                   qvars>>

\* A mkdirSync or writeFileSync of the backup throws: the catch of
\* generateBackup ends the process
WriteFails ==
    /\ run.pc \in {"saveAllContent", "saveIndividualContent"}
    /\ run' = BackupFailed(run)
    /\ UNCHANGED <<pvars, avars, fvars, ovars, hvars, xvars, cvars, lvars, bvars, tvars, qvars>>

\* The git command of autoCommitBackup whose turn it is succeeds; after the
\* push generateBackup returns and the process ends
GitCommand ==
    /\ run.pc = "git"
    /\ run' = IF run.git < Len(GitCommands) THEN [run EXCEPT !.git = @ + 1]
              ELSE [run EXCEPT !.pc = "exited", !.git = @ + 1]
    /\ UNCHANGED <<pvars, avars, fvars, ovars, hvars, xvars, cvars, lvars, bvars, tvars, qvars>>

\* The git command whose turn it is throws, a commit with nothing to commit
\* included: autoCommitBackup catches it and returns
GitCommandFails ==
    /\ run.pc = "git"
    /\ run' = GitFailed(run)
    /\ UNCHANGED <<pvars, avars, fvars, ovars, hvars, xvars, cvars, lvars, bvars, tvars, qvars>>

GNext ==
    \/ GetAll
    \/ GetAllRejected
    \/ PerformFullBackup
    \/ SaveAllContent
    \/ SaveIndividualContent
    \/ SaveMetadata
    \/ WriteFails
    \/ GitCommand
    \/ GitCommandFails

SpecBackupRun == GInit /\ [][GNext]_vars

\* The catch of generateBackup runs once the promise it awaits has rejected
SpecBackupRunFair == SpecBackupRun /\ WF_vars(GetAllRejected)

\* getAll has returned the content of every page listed, in the order listed
GetAllSucceeded ==
    /\ qOut # NotRun /\ ~IsThrow(qOut.value)
    /\ Len(qOut.value.a) = Len(Flatten(db))
    /\ \A i \in 1..Len(qOut.value.a) :
          Get(qOut.value.a[i], "id") = Get(Flatten(db)[i], "id")

\* the page listing, a block listing or a transform of the run has failed
GetAllFailed ==
    \/ query # Idle /\ query.failed
    \/ qOut # NotRun /\ IsThrow(qOut.value)

\* C39: a backup run writes no file of the backup before getAll has returned
\* the content of every page listed; when the page listing or the block
\* listing of a page fails it writes nothing and the process exits with a
\* status other than 0; and when git add, commit or push fails the process
\* exits with the status 0 it has when they succeed
C39_NoPartialBackup ==
    /\ [](files # <<>> => GetAllSucceeded)
    /\ [](GetAllFailed => files = <<>> /\ (run.pc = "exited" => run.status # 0))
    /\ GetAllFailed ~> (run.pc = "exited" /\ run.status # 0)
    /\ [](run.pc = "exited" /\ run.failedAt # "none" => run.status = 0)
    /\ [](run.pc = "exited" /\ run.git > Len(GitCommands) => run.status = 0)

\* two pages listed, both written, the push failed and the process has ended
C39_Witness ==
    /\ run.pc = "exited" /\ run.failedAt = "push" /\ run.status = 0
    /\ Len(Flatten(db)) = 2 /\ Len(content) = 2
    /\ ALL_EXPERIENCES \in DOMAIN files /\ METADATA \in DOMAIN files

-----------------------------------------------------------------------------
(* cacheBlockImages applied to what it returned *)

\* An article without a hero image, transformed by a caching loader; the file
\* of the first image block may be on disk from an earlier build
SInit ==
    /\ tIn \in [page : {PageOf(WithProp(GoodProps, "Hero Image", FilesProp(<<>>)))},
                blocks : ListsOver(PageBlocks, MaxPageBlocks), cacheImages : {TRUE}]
    /\ contentCache = <<>>
    /\ tp = Idle
    /\ tOut = NotRun
    /\ imageMap = <<>>
    /\ disk \in {{}, {generateFilename(U1, Get(Img1, "id"))}}
    /\ calls = <<>> /\ lastCall = NotRun /\ firstPath = <<>>
    /\ XIdle /\ LIdle /\ BIdle /\ QIdle /\ NIdle

\* cacheBlockImages is called again, on the blocks its first call returned
SecondPass ==
    /\ tp = Idle /\ second = NotRun
    /\ tOut # NotRun /\ ~IsThrow(tOut.result) /\ tOut.through /\ ~tOut.hit
    /\ tp' = [pc |-> "blocks", content |-> tOut.result, i |-> 0, log |-> <<>>,
              stack |-> <<[blocks |-> tOut.result.o.blocks.a, i |-> 1,
                           updatedBlocks |-> <<>>]>>]
    /\ second' = [pc |-> "walking", first |-> tOut.result.o.blocks.a, firstLog |-> tOut.log,
                  map |-> imageMap]
    /\ UNCHANGED <<tIn, contentCache, tOut, cvars, xvars, lvars, bvars, qvars,
                   pvars, avars, fvars, ovars, gvars, heap, walk>>

\* The second call returns
SecondPassReturn ==
    /\ second # NotRun /\ second.pc = "walking"
    /\ tp # Idle /\ Len(tp.stack) = 1 /\ tp.stack[1].i > Len(tp.stack[1].blocks)
    /\ second' = [pc |-> "returned", blocks |-> tp.stack[1].updatedBlocks, log |-> tp.log]
                 @@ second
    /\ tp' = Idle
    /\ UNCHANGED <<tIn, contentCache, tOut, cvars, xvars, lvars, bvars, qvars,
                   pvars, avars, fvars, ovars, gvars, heap, walk>>

\* transformPage up to its return, with the first cacheBlockImages call in it
FirstPass == second = NotRun /\ TNext

\* The turns of the loop of the second call, and the returns of its calls for children
SecondBlockStep == second # NotRun /\ \E outcome \in Outcomes : BlockStep(outcome)
SecondChildrenReturn == second # NotRun /\ ChildrenReturn

SNext ==
    \/ FirstPass
    \/ SecondPass
    \/ SecondBlockStep
    \/ SecondChildrenReturn
    \/ SecondPassReturn

SpecSecondPass == SInit /\ [][SNext]_vars

\* every download the first call made for a block succeeded
FirstPassSucceeded ==
    \A k \in 1..Len(second.firstLog) :
        second.firstLog[k].kind = "block" => ~Failed(second.firstLog[k])

\* C40: when every download of the first cacheBlockImages call succeeded, the
\* call on its result returns a list equal to that result, downloads nothing
\* and leaves the URL map as it was
C40_RewritingIdempotent ==
    (second # NotRun /\ second.pc = "returned" /\ FirstPassSucceeded) =>
        /\ second.blocks = second.first
        /\ \A k \in 1..Len(second.log) : second.log[k].outcome = "none"
        /\ imageMap = second.map

\* the first call downloaded the images of a nested and of a top-level block,
\* the second call asked the cache for both again
C40_Witness ==
    /\ second # NotRun /\ second.pc = "returned" /\ FirstPassSucceeded
    /\ tIn.blocks = <<Nest, Img2>>
    /\ \E k \in 1..Len(second.firstLog) :
          second.firstLog[k].kind = "block" /\ second.firstLog[k].outcome = "written"
    /\ Len(second.log) = 2
    /\ second.blocks # tIn.blocks

-----------------------------------------------------------------------------
(* cacheBlockImages on objects in memory. heap holds one cell per object and
   per array; a member that is itself an object or an array is held as the
   address of its cell, so two objects can share a payload or a child list
   and a write through one is seen through the other. *)

Ref(n) == [t |-> "ref", at |-> n]
IsRef(v) == v.t = "ref"

\* Rich text is held as a value inside its cell: cacheBlockImages reads none of it
Texts == {"rich_text", "caption"}
OnHeap(o) == {k \in DOMAIN o : o[k].t \in {"object", "array"} /\ k \notin Texts}

\* The value v laid out on the heap: the heap after it, and what stands for v
RECURSIVE Store(_, _), StoreFields(_, _, _, _), StoreItems(_, _, _, _)
Store(h, v) ==
    CASE v.t = "object" ->
            LET filled == StoreFields(h, v.o, OnHeap(v.o),
                                      [k \in DOMAIN v.o \ OnHeap(v.o) |-> v.o[k]])
                cells == Append(filled.heap, Obj(filled.o))
            IN  [heap |-> cells, value |-> Ref(Len(cells))]
      [] v.t = "array" ->
            LET filled == StoreItems(h, v.a, 1, <<>>)
                cells == Append(filled.heap, Arr(filled.a))
            IN  [heap |-> cells, value |-> Ref(Len(cells))]
      [] OTHER -> [heap |-> h, value |-> v]
StoreFields(h, o, keys, acc) ==
    IF keys = {} THEN [heap |-> h, o |-> acc]
    ELSE LET k == CHOOSE key \in keys : TRUE
             stored == Store(h, o[k])
         IN  StoreFields(stored.heap, o, keys \ {k}, (k :> stored.value) @@ acc)
StoreItems(h, a, i, acc) ==
    IF i > Len(a) THEN [heap |-> h, a |-> acc]
    ELSE LET stored == Store(h, a[i])
         IN  StoreItems(stored.heap, a, i + 1, Append(acc, stored.value))

\* The value that is seen through v on the heap
RECURSIVE Load(_, _)
Load(h, v) ==
    IF ~IsRef(v) THEN v
    ELSE IF h[v.at].t = "object"
         THEN Obj([k \in DOMAIN h[v.at].o |-> Load(h, h[v.at].o[k])])
         ELSE Arr([i \in 1..Len(h[v.at].a) |-> Load(h, h[v.at].a[i])])

\* updatedBlock = block: the same object under a second name
SameObject(h, ref) == [heap |-> h, ref |-> ref]

\* { ...block }: a new object with the members of block
SpreadCopy(h, ref) == [heap |-> Append(h, h[ref.at]), ref |-> Ref(Len(h) + 1)]

\* object[key] = value
Put(h, ref, key, value) == [h EXCEPT ![ref.at] = Obj((key :> value) @@ @.o)]

\* One turn of the for loop up to the end of the media part: the heap, the
\* object updatedBlock names, and the cache after it
mediaPart(h, block, cache, outcomeOf) ==
    LET key == TypeKey(Get(Load(h, block), "type").s)
        copied == SpreadCopy(h, block)
        media == Get(h[block.at], key)
        url == MediaUrl(Load(h, block))
        call == cacheImage(url, Get(Load(h, block), "id"), cache.map, cache.disk,
                           outcomeOf[url.s])
        \* updatedBlock[block.type] = {...media, type: 'file', file: {url: cachedUrl}}
        withFile == Append(copied.heap, Obj([url |-> call.result]))
        withPayload == Append(withFile, Obj(Spread(withFile[media.at].o,
                                                   [type |-> Str(FILE),
                                                    file |-> Ref(Len(withFile))])))
    IN  [heap |-> IF Truthy(url) /\ Truthy(call.result)
                  THEN Put(withPayload, copied.ref, key, Ref(Len(withPayload)))
                  ELSE copied.heap,
         updatedBlock |-> copied.ref,
         cache |-> IF Truthy(url) THEN [map |-> call.map, disk |-> call.disk] ELSE cache]

\* cacheBlockImages(blocks) with blocks on the heap; outcomeOf is what the
\* download of each URL comes to. loop is the for loop from block i on, turn
\* one turn of it, nestedPart the turn from the end of its media part m on
RECURSIVE cacheBlockImagesOnHeap(_, _, _, _), loop(_, _, _, _, _, _), turn(_, _, _, _),
          nestedPart(_, _, _)
cacheBlockImagesOnHeap(h, blocks, cache, outcomeOf) ==
    loop(h, h[blocks.at].a, 1, <<>>, cache, outcomeOf)
loop(h, blocks, i, updatedBlocks, cache, outcomeOf) ==
    IF i > Len(blocks)
    THEN [heap |-> Append(h, Arr(updatedBlocks)), result |-> Ref(Len(h) + 1), cache |-> cache]
    ELSE CHOOSE rest \in {loop(t.heap, blocks, i + 1, Append(updatedBlocks, t.updatedBlock),
                               t.cache, outcomeOf) :
                              t \in {turn(h, blocks[i], cache, outcomeOf)}} : TRUE
turn(h, block, cache, outcomeOf) ==
    CHOOSE t \in {nestedPart(m, block, outcomeOf) :
                     m \in {mediaPart(h, block, cache, outcomeOf)}} : TRUE
nestedPart(m, block, outcomeOf) ==
    IF HasNested(Load(m.heap, block))
    THEN LET key == TypeKey(Get(Load(m.heap, block), "type").s)
             payload == Get(m.heap[block.at], key)
         IN  \* updatedBlock[block.type] = {...block[block.type], children: ...}
             CHOOSE t \in
                 {[heap |-> Put(Append(nested.heap,
                                       Obj(Spread(m.heap[payload.at].o,
                                                  [children |-> nested.result]))),
                                m.updatedBlock, key, Ref(Len(nested.heap) + 1)),
                   updatedBlock |-> m.updatedBlock,
                   cache |-> nested.cache] :
                  nested \in {cacheBlockImagesOnHeap(m.heap,
                                                     Get(m.heap[payload.at], "children"),
                                                     m.cache, outcomeOf)}} : TRUE
    ELSE m

\* A block list in memory and a caller that holds it; nothing is cached yet,
\* or the file of the first image block is on disk from an earlier build
HInit ==
    /\ \E blocks \in ListsOver(PageBlocks, MaxPageBlocks) :
       \E stored \in {Store(<<>>, Arr(blocks))} :
          /\ heap = stored.heap
          /\ walk = [pc |-> "called", blocks |-> stored.value, input |-> Arr(blocks),
                     given |-> stored.heap]
    /\ second = NotRun
    /\ imageMap = <<>>
    /\ disk \in {{}, {generateFilename(U1, Get(Img1, "id"))}}
    /\ calls = <<>> /\ lastCall = NotRun /\ firstPath = <<>>
    /\ XIdle /\ LIdle /\ BIdle /\ TIdle /\ QIdle /\ PIdle /\ AIdle /\ FIdle /\ OIdle /\ GIdle

\* cacheBlockImages(blocks) runs to its return
CacheBlockImages ==
    /\ walk.pc = "called"
    /\ \E outcomeOf \in [{U1, U2} -> Outcomes] :
       \E r \in {cacheBlockImagesOnHeap(heap, walk.blocks, [map |-> imageMap, disk |-> disk],
                                        outcomeOf)} :
          /\ heap' = r.heap
          /\ walk' = [pc |-> "returned", result |-> r.result] @@ walk
          /\ imageMap' = r.cache.map
          /\ disk' = r.cache.disk
    /\ UNCHANGED <<calls, lastCall, firstPath, second, xvars, lvars, bvars, tvars, qvars,
                   pvars, avars, fvars, ovars, gvars>>

SpecHeap == HInit /\ [][CacheBlockImages]_vars

\* C37: cacheBlockImages leaves the list it was given as it was: after the
\* call every object and array of the input (the list, its blocks, their
\* payloads, file references and child lists) holds what it held before, and
\* the caller sees through its list the value it passed; what was rewritten
\* is in the returned list
C37_InputUntouched ==
    (walk.pc = "returned") =>
        /\ \A at \in 1..Len(walk.given) : heap[at] = walk.given[at]
        /\ Load(heap, walk.blocks) = walk.input
        /\ walk.result.at > Len(walk.given)

\* a nested and an external image were rewritten in the returned list: its
\* second block has the local path, the block passed in still has its own
C37_Witness ==
    /\ walk.pc = "returned" /\ walk.input = Arr(<<Nest, Img2>>)
    /\ StartsWith(MediaUrl(Load(heap, walk.result).a[2]).s, IMAGES)
    /\ StartsWith(MediaUrl(Load(heap, walk.result).a[1].o.callout.o.children.a[1]).s, IMAGES)
    /\ Load(heap, walk.blocks).a[2] = Img2

=============================================================================
